---------------------------- MODULE Spec2Model ----------------------------
(***************************************************************************)
(* A model of docopt_fish (src/docopt_fish.cpp): the option catalog built  *)
(* by preflight, the argv tokenizer, the tree matcher and the finalizer.   *)
(*                                                                         *)
(* Strings are sequences of one-character strings, so that prefixes,       *)
(* characters and sub-ranges are computed as the code computes them.  A    *)
(* range_t is a record [start, length] (start counted from 0) into the doc *)
(* text `source`, or into one argv token.                                  *)
(***************************************************************************)
EXTENDS Integers, Sequences, FiniteSets, TLC

VARIABLES
    doc,                    \* which usage document the instance was built from
    source,                 \* docopt_impl::source, the doc text
    pc,                     \* position of the instance / of the call in progress
    parse_tree,             \* docopt_impl::parse_tree
    shortcut_options,       \* docopt_impl::shortcut_options
    usage_options,          \* preflight's local usage_options
    all_options,            \* docopt_impl::all_options
    all_variables,          \* docopt_impl::all_variables
    all_static_arguments,   \* docopt_impl::all_static_arguments
    errors,                 \* docopt_impl::errors
    call,                   \* the public call in progress: [op, argv, flags]
    tok,                    \* tokenizer state: [idx, positionals, resolved_options, suggestion]
    states,                 \* the match state list returned by match(usage_t)
    out,                    \* what the last completed call returned
    prev,                   \* what the call before it returned (history)
    ell                     \* one ellipsis loop of match(expression_t), round by round

vars == << doc, source, pc, parse_tree, shortcut_options, usage_options,
           all_options, all_variables, all_static_arguments, errors,
           call, tok, states, out, prev, ell >>

-----------------------------------------------------------------------------
(* Bounds of the model *)

\* Most arguments after the program name in an argv handed to parse
MaxArgvLen == 3

\* Longest option list handed to uniqueize_options in SpecUniq
MaxOptListLen == 3

\* Rounds of one ellipsis loop the model follows
MaxRounds == 6

\* Longest argv without a program name handed to parse
MaxBareLen == 1

-----------------------------------------------------------------------------
(* Ranges and strings *)

npos == -1

range_t(s, l) == [start |-> s, length |-> l]

EmptyRange == range_t(0, 0)

range_end(r) == r.start + r.length

range_empty(r) == r.length = 0

\* string_t(str, start, length): the substring constructor, clamped like std::string
substr(str, start, length) ==
    SubSeq(str, start + 1, IF start + length > Len(str) THEN Len(str) ELSE start + length)

Min(a, b) == IF a < b THEN a ELSE b

RECURSIVE Join(_)
Join(words) ==
    IF words = << >> THEN << >>
    ELSE IF Len(words) = 1 THEN words[1]
    ELSE words[1] \o << " " >> \o Join(Tail(words))

RECURSIVE WStart(_, _)
\* offset in Join(words) of the first character of word i
WStart(words, i) == IF i = 1 THEN 0 ELSE WStart(words, i - 1) + Len(words[i - 1]) + 1

\* index of the n-th occurrence of the word w
NthWord(words, w, n) ==
    CHOOSE i \in 1..Len(words) :
        /\ words[i] = w
        /\ Cardinality({j \in 1..(i - 1) : words[j] = w}) = n - 1

\* the range of `length` characters of the n-th occurrence of w, `skip` characters in
WordRange(words, w, n, skip, length) ==
    range_t(WStart(words, NthWord(words, w, n)) + skip, length)

SeqToSet(s) == {s[i] : i \in 1..Len(s)}

RECURSIVE SeqsUpTo(_, _)
SeqsUpTo(S, n) ==
    IF n = 0 THEN {<< >>}
    ELSE LET shorter == SeqsUpTo(S, n - 1)
         IN  shorter \cup {Append(s, x) : s \in {t \in shorter : Len(t) = n - 1}, x \in S}

RemoveAt(s, i) == SubSeq(s, 1, i - 1) \o SubSeq(s, i + 1, Len(s))

-----------------------------------------------------------------------------
(* Texts: words of the usage documents and argv tokens *)

t_Usage == << "U", "s", "a", "g", "e", ":" >>
t_Options == << "O", "p", "t", "i", "o", "n", "s", ":" >>
t_prog == << "p", "r", "o", "g" >>
t_lparen == << "(" >>
t_rparen == << ")" >>
t_bar == << "|" >>
t_dots == << ".", ".", "." >>
t_lbrack == << "[" >>
t_rbrack == << "]" >>
t_options == << "[", "o", "p", "t", "i", "o", "n", "s", "]" >>
t_a == << "a" >>
t_b == << "b" >>
t_var_x == << "<", "x", ">" >>
t_v == << "-", "v" >>
t_v_comma == << "-", "v", "," >>
t_verbose == << "-", "-", "v", "e", "r", "b", "o", "s", "e" >>
t_Loud == << "L", "o", "u", "d" >>
t_m_comma == << "-", "m", "," >>
t_message == << "-", "-", "m", "e", "s", "s", "a", "g", "e" >>
t_var_text == << "<", "t", "e", "x", "t", ">" >>
t_Msg == << "M", "s", "g" >>
t_default == << "[", "d", "e", "f", "a", "u", "l", "t", ":" >>
t_hi == << "h", "i", "]" >>
t_verify == << "-", "-", "v", "e", "r", "i", "f", "y" >>
t_Check == << "C", "h", "e", "c", "k" >>
t_one == << "1", "]" >>
t_foo == << "-", "f", "o", "o" >>
t_foo_val == << "-", "f", "o", "o", "=", "<", "v", "a", "l", ">" >>
t_Foo == << "F", "o", "o" >>
t_fob == << "-", "f", "o", "b" >>
t_Dab == << "-", "D", "a", "b" >>
t_f == << "-", "f" >>
t_o == << "-", "o" >>
t_var_val == << "<", "v", "a", "l", ">" >>
t_D_val == << "-", "D", "<", "v", "a", "l", ">" >>
t_dash_a == << "-", "a" >>
t_One == << "O", "n", "e" >>
t_Longer == << "L", "o", "n", "g", "e", "r" >>
t_b_comma == << "-", "b", "," >>
t_beta_k == << "-", "-", "b", "e", "t", "a", "=", "<", "k", ">" >>
t_Num == << "N", "u", "m" >>
t_five == << "5", "]" >>
t_ver == << "-", "-", "v", "e", "r" >>
t_verb == << "-", "-", "v", "e", "r", "b" >>
t_m == << "-", "m" >>
t_message_a == << "-", "-", "m", "e", "s", "s", "a", "g", "e", "=", "a" >>
t_vv == << "-", "v", "v" >>
t_dashdash == << "-", "-" >>
t_fo == << "-", "f", "o" >>
t_Da == << "-", "D", "a" >>
t_D == << "-", "D" >>
t_beta == << "-", "-", "b", "e", "t", "a" >>
t_bet == << "-", "-", "b", "e", "t" >>
t_beta_a == << "-", "-", "b", "e", "t", "a", "=", "a" >>
t_of == << "-", "o", "f" >>
t_oo == << "-", "o", "o" >>
t_fz == << "-", "f", "z" >>

-----------------------------------------------------------------------------
(* option_t *)

\* option_t's constructor: the type follows from the dash count and the name length
option_t(name, value, leading_dash_count, separator) ==
    [ name |-> name,
      value |-> value,
      leading_dash_count |-> leading_dash_count,
      separator |-> separator,
      type |-> IF leading_dash_count > 1 THEN "double_long"
               ELSE IF name.length > 1 THEN "single_long"
               ELSE "single_short",
      description_range |-> EmptyRange,
      default_value_range |-> EmptyRange,
      corresponding_long_name |-> EmptyRange ]

\* option_t::has_value
has_value(opt) == ~ range_empty(opt.value)

\* option_t::has_same_name: the name ranges hold the same text of src
has_same_name(opt1, opt2, src) ==
    /\ opt1.name.length = opt2.name.length
    /\ substr(src, opt1.name.start, opt1.name.length)
         = substr(src, opt2.name.start, opt2.name.length)

\* option_t::name_as_string: the name with its leading dashes
name_as_string(opt, src) ==
    substr(src, opt.name.start - opt.leading_dash_count,
           opt.name.length + opt.leading_dash_count)

\* option_t::longest_name_as_string: the corresponding long name (a double-dash
\* name) when there is one, else the option's own name
longest_name_as_string(opt, src) ==
    IF range_empty(opt.corresponding_long_name)
    THEN name_as_string(opt, src)
    ELSE substr(src, opt.corresponding_long_name.start - 2,
                opt.corresponding_long_name.length + 2)

\* The end of parse_one_option_spec, from the options lexed on one spec line:
\* every option gets the line's description and default, the name of the last
\* double-dash option as corresponding long name, and the last variable as value
RECURSIVE LastSuch(_, _, _)
LastSuch(opts, field, acc) ==
    IF opts = << >> THEN acc
    ELSE LastSuch(Tail(opts), field,
                  IF field = "long"
                  THEN (IF Head(opts).type = "double_long" THEN Head(opts).name ELSE acc)
                  ELSE (IF ~ range_empty(Head(opts).value) THEN Head(opts).value ELSE acc))

parse_one_option_spec(opts, description_range, default_value_range) ==
    LET name_range_of_last_long_option == LastSuch(opts, "long", EmptyRange)
        last_value_range == LastSuch(opts, "value", EmptyRange)
    IN  [ i \in 1..Len(opts) |->
            [ opts[i] EXCEPT
                !.description_range = description_range,
                !.default_value_range = default_value_range,
                !.corresponding_long_name =
                    IF range_empty(name_range_of_last_long_option) THEN @
                    ELSE name_range_of_last_long_option,
                !.value = IF range_empty(@) THEN last_value_range ELSE @ ] ]

-----------------------------------------------------------------------------
(* The usage tree (the output of parse_usage), as the matcher reads it *)

Null == [kind |-> "null"]

usage_t(prog_name, alternation_list, next_usage) ==
    [ kind |-> "usage", prog_name |-> prog_name,
      alternation_list |-> alternation_list, next_usage |-> next_usage ]

\* the final terminating usage: its program name is empty
EndUsage == usage_t(EmptyRange, Null, Null)

RECURSIVE ExprList(_)
\* expression_list_t / opt_expression_list_t of a non-empty sequence of expressions
ExprList(es) ==
    [ kind |-> "expression_list",
      expression |-> es[1],
      opt_expression_list |->
          [ kind |-> "opt_expression_list",
            expression_list |-> IF Len(es) = 1 THEN Null ELSE ExprList(Tail(es)) ] ]

RECURSIVE Alt(_)
\* alternation_list_t / or_continuation_t of a non-empty sequence of branches
Alt(branches) ==
    [ kind |-> "alternation_list",
      expression_list |-> ExprList(branches[1]),
      or_continuation |->
          [ kind |-> "or_continuation",
            alternation_list |-> IF Len(branches) = 1 THEN Null ELSE Alt(Tail(branches)) ] ]

\* expression_t: production 0 simple clause, 1 parentheses, 2 square brackets, 3 [options]
expression_t(production, has_ellipsis, child) ==
    [ kind |-> "expression", production |-> production,
      opt_ellipsis |-> has_ellipsis,
      simple_clause |-> IF production = 0 THEN child ELSE Null,
      alternation_list |-> IF production \in {1, 2} THEN child ELSE Null ]

option_clause_t(opt) == [kind |-> "option_clause", option |-> opt]
fixed_clause_t(word) == [kind |-> "fixed_clause", word |-> word]
variable_clause_t(word) == [kind |-> "variable_clause", word |-> word]

Simple(clause, has_ellipsis) == expression_t(0, has_ellipsis, clause)
Paren(branches, has_ellipsis) == expression_t(1, has_ellipsis, Alt(branches))
Bracket(branches, has_ellipsis) == expression_t(2, has_ellipsis, Alt(branches))
OptionsShortcut == expression_t(3, FALSE, Null)

-----------------------------------------------------------------------------
(* The usage documents the instance is built from.  Each is given as its   *)
(* text (words joined by single spaces), the option records lexed from its *)
(* Options: section, line by line, and the tree of its Usage: section.     *)

\* the option written as the n-th occurrence of word w: dashes, then a name of name_len
\* characters; its value is the range `value`
OptAt(words, w, n, dashes, name_len, value, separator) ==
    option_t(WordRange(words, w, n, dashes, name_len), value, dashes, separator)

\* the range from the first character of word i to the last character of word j
SpanRange(words, i, j) ==
    range_t(WStart(words, i), WStart(words, j) + Len(words[j]) - WStart(words, i))

WholeWord(words, w, n) == WordRange(words, w, n, 0, Len(w))

\* Usage: prog ( a | b ) ... [ -v ]
WordsA ==
    << t_Usage, t_prog, t_lparen, t_a, t_bar, t_b, t_rparen, t_dots,
       t_lbrack, t_v, t_rbrack >>

DocA ==
    LET w == WordsA
        opt_v == OptAt(w, t_v, 1, 1, 1, EmptyRange, "sep_space")
    IN  [ source |-> Join(w),
          options_spec |-> << >>,
          parse_tree |->
              usage_t(WholeWord(w, t_prog, 1),
                      Alt(<< << Paren(<< << Simple(fixed_clause_t(WholeWord(w, t_a, 1)), FALSE) >>,
                                         << Simple(fixed_clause_t(WholeWord(w, t_b, 1)), FALSE) >> >>,
                                      TRUE),
                                Bracket(<< << Simple(option_clause_t(opt_v), FALSE) >> >>, FALSE) >> >>),
                      EndUsage),
          tokens |-> {t_a, t_b, t_v, t_vv} ]

\* Usage: prog [options] [ --verbose ] [ <x> ]
\* Options: -v, --verbose  Loud
\*          -m, --message <text>  Msg [default: hi]
\*          --verify  Check [default: 1]
WordsB ==
    << t_Usage, t_prog, t_options, t_lbrack, t_verbose, t_rbrack,
       t_lbrack, t_var_x, t_rbrack,
       t_Options, t_v_comma, t_verbose, t_Loud,
       t_m_comma, t_message, t_var_text, t_Msg, t_default, t_hi,
       t_verify, t_Check, t_default, t_one >>

DocB ==
    LET w == WordsB
        u_verbose == OptAt(w, t_verbose, 1, 2, 7, EmptyRange, "sep_space")
        line1 == parse_one_option_spec(
                    << OptAt(w, t_v_comma, 1, 1, 1, EmptyRange, "sep_space"),
                       OptAt(w, t_verbose, 2, 2, 7, EmptyRange, "sep_space") >>,
                    WholeWord(w, t_Loud, 1), EmptyRange)
        line2 == parse_one_option_spec(
                    << OptAt(w, t_m_comma, 1, 1, 1, EmptyRange, "sep_space"),
                       OptAt(w, t_message, 1, 2, 7, WholeWord(w, t_var_text, 1), "sep_space") >>,
                    SpanRange(w, NthWord(w, t_Msg, 1), NthWord(w, t_hi, 1)),
                    WordRange(w, t_hi, 1, 0, 2))
        line3 == parse_one_option_spec(
                    << OptAt(w, t_verify, 1, 2, 6, EmptyRange, "sep_space") >>,
                    SpanRange(w, NthWord(w, t_Check, 1), NthWord(w, t_one, 1)),
                    WordRange(w, t_one, 1, 0, 1))
    IN  [ source |-> Join(w),
          options_spec |-> line1 \o line2 \o line3,
          parse_tree |->
              usage_t(WholeWord(w, t_prog, 1),
                      Alt(<< << OptionsShortcut,
                                Bracket(<< << Simple(option_clause_t(u_verbose), FALSE) >> >>, FALSE),
                                Bracket(<< << Simple(variable_clause_t(WholeWord(w, t_var_x, 1)), FALSE) >> >>,
                                        FALSE) >> >>),
                      EndUsage),
          tokens |-> {t_a, t_ver, t_verb, t_m, t_message_a, t_verify} ]

\* Usage: prog ( [ a ] ) ... [ -v ] ... <x> ...
WordsC ==
    << t_Usage, t_prog, t_lparen, t_lbrack, t_a, t_rbrack, t_rparen, t_dots,
       t_lbrack, t_v, t_rbrack, t_dots, t_var_x, t_dots >>

DocC ==
    LET w == WordsC
        opt_v == OptAt(w, t_v, 1, 1, 1, EmptyRange, "sep_space")
    IN  [ source |-> Join(w),
          options_spec |-> << >>,
          parse_tree |->
              usage_t(WholeWord(w, t_prog, 1),
                      Alt(<< << Paren(<< << Bracket(<< << Simple(fixed_clause_t(WholeWord(w, t_a, 1)),
                                                                  FALSE) >> >>, FALSE) >> >>,
                                      TRUE),
                                Bracket(<< << Simple(option_clause_t(opt_v), FALSE) >> >>, TRUE),
                                Simple(variable_clause_t(WholeWord(w, t_var_x, 1)), TRUE) >> >>),
                      EndUsage),
          tokens |-> {t_a, t_b, t_v, t_dashdash} ]

\* Usage: prog [options]
\* Options: -foo=<val>  Foo
\*          -fob
\*          -f
\*          -o <val>
\*          -D<val>
\*          -Dab
WordsD ==
    << t_Usage, t_prog, t_options,
       t_Options, t_foo_val, t_Foo, t_fob, t_f, t_o, t_var_val, t_D_val, t_Dab >>

DocD ==
    LET w == WordsD
    IN  [ source |-> Join(w),
          options_spec |->
              parse_one_option_spec(<< OptAt(w, t_foo_val, 1, 1, 3,
                                             WordRange(w, t_foo_val, 1, 5, 5), "sep_equals") >>,
                                    WholeWord(w, t_Foo, 1), EmptyRange)
              \o parse_one_option_spec(<< OptAt(w, t_fob, 1, 1, 3, EmptyRange, "sep_space") >>,
                                       EmptyRange, EmptyRange)
              \o parse_one_option_spec(<< OptAt(w, t_f, 1, 1, 1, EmptyRange, "sep_space") >>,
                                       EmptyRange, EmptyRange)
              \o parse_one_option_spec(<< OptAt(w, t_o, 1, 1, 1, WholeWord(w, t_var_val, 1),
                                               "sep_space") >>,
                                       EmptyRange, EmptyRange)
              \o parse_one_option_spec(<< OptAt(w, t_D_val, 1, 1, 1,
                                               WordRange(w, t_D_val, 1, 2, 5), "sep_none") >>,
                                       EmptyRange, EmptyRange)
              \o parse_one_option_spec(<< OptAt(w, t_Dab, 1, 1, 3, EmptyRange, "sep_space") >>,
                                       EmptyRange, EmptyRange),
          parse_tree |->
              usage_t(WholeWord(w, t_prog, 1), Alt(<< << OptionsShortcut >> >>), EndUsage),
          tokens |-> {t_a, t_fo, t_foo, t_Da, t_D} ]

\* the doc of DocD, called with runs of short options and with "--"
DocT == [ DocD EXCEPT !.tokens = {t_a, t_dashdash, t_o, t_of, t_oo, t_fz, t_fo, t_foo} ]

\* Usage: prog -v <x>
WordsG == << t_Usage, t_prog, t_v, t_var_x >>

DocG ==
    LET w == WordsG
        opt_v == OptAt(w, t_v, 1, 1, 1, EmptyRange, "sep_space")
    IN  [ source |-> Join(w),
          options_spec |-> << >>,
          parse_tree |->
              usage_t(WholeWord(w, t_prog, 1),
                      Alt(<< << Simple(option_clause_t(opt_v), FALSE),
                                Simple(variable_clause_t(WholeWord(w, t_var_x, 1)), FALSE) >> >>),
                      EndUsage),
          tokens |-> {t_a, t_v} ]

\* Usage: prog a <x>
\*        prog b [ -a ]
\* Options: -a  One
\*          -a  Longer
\*          -b, --beta=<k>  Num [default: 5]
WordsE ==
    << t_Usage, t_prog, t_a, t_var_x, t_prog, t_b, t_lbrack, t_dash_a, t_rbrack,
       t_Options, t_dash_a, t_One, t_dash_a, t_Longer,
       t_b_comma, t_beta_k, t_Num, t_default, t_five >>

DocE ==
    LET w == WordsE
        u_a == OptAt(w, t_dash_a, 1, 1, 1, EmptyRange, "sep_space")
    IN  [ source |-> Join(w),
          options_spec |->
              parse_one_option_spec(<< OptAt(w, t_dash_a, 2, 1, 1, EmptyRange, "sep_space") >>,
                                    WholeWord(w, t_One, 1), EmptyRange)
              \o parse_one_option_spec(<< OptAt(w, t_dash_a, 3, 1, 1, EmptyRange, "sep_space") >>,
                                       WholeWord(w, t_Longer, 1), EmptyRange)
              \o parse_one_option_spec(
                    << OptAt(w, t_b_comma, 1, 1, 1, EmptyRange, "sep_space"),
                       OptAt(w, t_beta_k, 1, 2, 4, WordRange(w, t_beta_k, 1, 7, 3), "sep_equals") >>,
                    SpanRange(w, NthWord(w, t_Num, 1), NthWord(w, t_five, 1)),
                    WordRange(w, t_five, 1, 0, 1)),
          parse_tree |->
              usage_t(WholeWord(w, t_prog, 1),
                      Alt(<< << Simple(fixed_clause_t(WholeWord(w, t_a, 1)), FALSE),
                                Simple(variable_clause_t(WholeWord(w, t_var_x, 1)), FALSE) >> >>),
                      usage_t(WholeWord(w, t_prog, 2),
                              Alt(<< << Simple(fixed_clause_t(WholeWord(w, t_b, 1)), FALSE),
                                        Bracket(<< << Simple(option_clause_t(u_a), FALSE) >> >>,
                                                FALSE) >> >>),
                              EndUsage)),
          tokens |-> {t_a, t_b, t_dash_a, t_beta, t_bet, t_beta_a} ]

\* Usage: prog
WordsF == << t_Usage, t_prog >>

DocF ==
    LET w == WordsF
    IN  [ source |-> Join(w),
          options_spec |-> << >>,
          parse_tree |-> usage_t(WholeWord(w, t_prog, 1), Null, EndUsage),
          tokens |-> {t_a, t_v} ]

Docs == << DocA, DocB, DocC, DocD, DocE, DocF >>

-----------------------------------------------------------------------------
(* Errors *)

\* append_error / append_argv_error: one error record at the end of the list
append_error(errs, position, code, arg_idx) ==
    Append(errs, [code |-> code, position |-> position, arg_idx |-> arg_idx])

-----------------------------------------------------------------------------
(* preflight: the option catalog *)

\* docopt_impl::options_have_same_name
options_have_same_name(opt1, opt2) == has_same_name(opt1, opt2, source)

RECURSIVE uniq_scan_latest(_, _, _, _, _, _)
\* uniq_scan preferring the later of two options with descriptions of the same length
uniq_scan_latest(options, match_cursor, best_match_idx, matching_indexes, error_on_duplicates, errs) ==
    IF match_cursor >= Len(options)
    THEN [best_match_idx |-> best_match_idx, matching_indexes |-> matching_indexes, errors |-> errs]
    ELSE LET current_match == options[best_match_idx + 1]
             maybe_match == options[match_cursor + 1]
         IN  IF options_have_same_name(current_match, maybe_match)
             THEN uniq_scan_latest(options, match_cursor + 1,
                            IF maybe_match.description_range.length
                                 >= current_match.description_range.length
                            THEN match_cursor ELSE best_match_idx,
                            Append(matching_indexes, match_cursor),
                            error_on_duplicates,
                            IF error_on_duplicates
                            THEN append_error(errs, maybe_match.name.start,
                                              "error_option_duplicated_in_options_section", npos)
                            ELSE errs)
             ELSE uniq_scan_latest(options, match_cursor + 1, best_match_idx, matching_indexes,
                            error_on_duplicates, errs)

RECURSIVE uniq_scan(_, _, _, _, _, _)
\* uniqueize_options, the inner loop over match_cursor: the indexes (from 0) of the
\* options that match the best one so far, and the index of the best
uniq_scan(options, match_cursor, best_match_idx, matching_indexes, error_on_duplicates, errs) ==
    IF match_cursor >= Len(options)
    THEN [best_match_idx |-> best_match_idx, matching_indexes |-> matching_indexes, errors |-> errs]
    ELSE LET current_match == options[best_match_idx + 1]
             maybe_match == options[match_cursor + 1]
         IN  IF options_have_same_name(current_match, maybe_match)
             THEN uniq_scan(options, match_cursor + 1,
                            IF maybe_match.description_range.length
                                 > current_match.description_range.length
                            THEN match_cursor ELSE best_match_idx,
                            Append(matching_indexes, match_cursor),
                            error_on_duplicates,
                            IF error_on_duplicates
                            THEN append_error(errs, maybe_match.name.start,
                                              "error_option_duplicated_in_options_section", npos)
                            ELSE errs)
             ELSE uniq_scan(options, match_cursor + 1, best_match_idx, matching_indexes,
                            error_on_duplicates, errs)

\* uniqueize_options with an erase loop that erases nothing
uniq_erase_none(options, matching_indexes, best_match_idx, cursor) ==
    [options |-> options, cursor |-> cursor]

RECURSIVE uniq_erase(_, _, _, _)
\* uniqueize_options, the erase loop: every matching index but the best is erased, from
\* the back; erasing the cursor itself steps the cursor back by one
uniq_erase(options, matching_indexes, best_match_idx, cursor) ==
    IF matching_indexes = << >>
    THEN [options |-> options, cursor |-> cursor]
    ELSE LET idx_to_remove == matching_indexes[Len(matching_indexes)]
             rest == SubSeq(matching_indexes, 1, Len(matching_indexes) - 1)
         IN  IF idx_to_remove # best_match_idx
             THEN uniq_erase(RemoveAt(options, idx_to_remove + 1), rest, best_match_idx,
                             IF idx_to_remove = cursor THEN cursor - 1 ELSE cursor)
             ELSE uniq_erase(options, rest, best_match_idx, cursor)

RECURSIVE uniq_loop(_, _, _, _)
\* uniqueize_options, the outer loop over cursor (cursor - 1 + 1 is the same number
\* with or without size_t's wrap-around at 0)
uniq_loop(options, cursor, error_on_duplicates, errs) ==
    IF cursor >= Len(options)
    THEN [options |-> options, errors |-> errs]
    ELSE LET scan == uniq_scan(options, cursor + 1, cursor, << cursor >>,
                               error_on_duplicates, errs)
             erased == uniq_erase(options, scan.matching_indexes, scan.best_match_idx, cursor)
         IN  uniq_loop(erased.options, erased.cursor + 1, error_on_duplicates, scan.errors)

\* uniqueize_options: [options, errors] after the call
uniqueize_options(options, error_on_duplicates, errs) ==
    uniq_loop(options, 0, error_on_duplicates, errs)

RECURSIVE Clauses(_)
\* clause_collector_t: the clauses of a tree in the order the visitor meets them
Clauses(node) ==
    CASE node.kind = "null" -> << >>
      [] node.kind = "usage" -> Clauses(node.alternation_list) \o Clauses(node.next_usage)
      [] node.kind = "alternation_list" ->
            Clauses(node.expression_list) \o Clauses(node.or_continuation)
      [] node.kind = "or_continuation" -> Clauses(node.alternation_list)
      [] node.kind = "expression_list" ->
            Clauses(node.expression) \o Clauses(node.opt_expression_list)
      [] node.kind = "opt_expression_list" -> Clauses(node.expression_list)
      [] node.kind = "expression" ->
            Clauses(node.simple_clause) \o Clauses(node.alternation_list)
      [] OTHER -> << node >>

OfKind(clauses, kind) == SelectSeq(clauses, LAMBDA c : c.kind = kind)

\* collect_options_and_variables
collect_options_and_variables(tree) ==
    LET clauses == Clauses(tree)
        opts == OfKind(clauses, "option_clause")
        fixeds == OfKind(clauses, "fixed_clause")
        variables == OfKind(clauses, "variable_clause")
    IN  [ options |-> [i \in 1..Len(opts) |-> opts[i].option],
          fixeds |-> [i \in 1..Len(fixeds) |-> fixeds[i].word],
          variables |-> [i \in 1..Len(variables) |-> variables[i].word] ]

RECURSIVE excise_loop(_, _, _)
\* preflight, the excision loop: a shortcut option with the same name as an option of
\* the usage is erased (i -= 1, then i++, stays on the same index)
excise_loop(shortcuts, usage_opts, i) ==
    IF i >= Len(shortcuts) THEN shortcuts
    ELSE IF \E j \in 1..Len(usage_opts) :
                options_have_same_name(shortcuts[i + 1], usage_opts[j])
         THEN excise_loop(RemoveAt(shortcuts, i + 1), usage_opts, i)
         ELSE excise_loop(shortcuts, usage_opts, i + 1)

\* preflight: the instance's fields after a successful preflight of the document d
preflight(d) ==
    LET shortcuts == uniqueize_options(d.options_spec, TRUE, << >>)
        collected == collect_options_and_variables(d.parse_tree)
        combined == uniqueize_options(collected.options \o shortcuts.options, FALSE,
                                      shortcuts.errors)
    IN  [ parse_tree |-> d.parse_tree,
          usage_options |-> collected.options,
          shortcut_options |-> excise_loop(shortcuts.options, collected.options, 0),
          all_options |-> combined.options,
          all_variables |-> collected.variables,
          all_static_arguments |-> collected.fixeds,
          errors |-> combined.errors ]

-----------------------------------------------------------------------------
(* The argv tokenizer *)

AllFlags ==
    { "flag_resolve_unambiguous_prefixes", "flag_short_options_strict_separators",
      "flag_generate_suggestions", "flag_generate_empty_args", "flag_match_allow_incomplete" }

\* the characters char_is_valid_in_parameter rejects
InvalidInParameter == {".", "|", "<", ">", ",", "=", "(", ")", "[", "]", " ", "\t", "\n"}

RECURSIVE scan_while(_, _, _, _)
\* scan_while: how many characters from `start` on are (wanted) or are not (~ wanted) in chars
scan_while(str, start, chars, wanted) ==
    IF start < Len(str) /\ ((str[start + 1] \in chars) = wanted)
    THEN 1 + scan_while(str, start + 1, chars, wanted)
    ELSE 0

\* range_equals_string: the text of `range` in source equals str[start_in_str, +len_in_str)
range_equals_string(range, str, start_in_str, len_in_str) ==
    LET len == Min(len_in_str, Len(str) - start_in_str)
    IN  /\ range.length = len
        /\ substr(source, range.start, range.length) = substr(str, start_in_str, len)

\* str_equals against "--"
is_double_dash(arg) == arg = << "-", "-" >>

\* substr_equals(dashes, arg, n): arg starts with n dashes
starts_with_dashes(arg, n) == Len(arg) >= n /\ \A i \in 1..n : arg[i] = "-"

\* parse_option_from_argument: the argument read as dashes, a name, and =value
parse_option_from_argument(str) ==
    LET dashes == scan_while(str, 0, {"-"}, TRUE)
        name_len == scan_while(str, dashes, InvalidInParameter, FALSE)
        after_name == dashes + name_len
        has_equals == after_name < Len(str) /\ str[after_name + 1] = "="
        value_range == IF has_equals
                       THEN range_t(after_name + 1, Len(str) - (after_name + 1))
                       ELSE EmptyRange
    IN  option_t(range_t(dashes, name_len), value_range, dashes,
                 IF has_equals THEN "sep_equals" ELSE "sep_space")

resolved_option_t(opt, name_idx, val_idx, val_range) ==
    [ option |-> opt, name_idx_in_argv |-> name_idx,
      value_idx_in_argv |-> val_idx, value_range_in_arg |-> val_range ]

\* What one of parse_long, parse_unseparated_short, parse_short hands back: its return
\* value, the cursor *idx as it leaves it, what it appended to out_result and to
\* out_errors, what it assigned to out_suggestion, and whether one of its assertions
\* was false (the code goes on as a build without assertions does)
parse_result(success, idx, resolved, errs, suggestion, assert_failed) ==
    [ success |-> success, idx |-> idx, resolved |-> resolved, errors |-> errs,
      suggestion |-> suggestion, assert_failed |-> assert_failed ]

\* parse_long, the options of the wanted type whose name is exactly the argument's name
long_exact_matches(arg, arg_as_option, type, options) ==
    SelectSeq(options, LAMBDA opt :
        /\ opt.type = type
        /\ range_equals_string(opt.name, arg, arg_as_option.name.start,
                               arg_as_option.name.length))

\* long_prefix_matches stopping at the first option found
long_prefix_matches_first(arg, arg_as_option, type, options) ==
    LET found == SelectSeq(options, LAMBDA opt :
                     /\ opt.type = type
                     /\ opt.name.length > arg_as_option.name.length
                     /\ substr(source, opt.name.start, arg_as_option.name.length)
                          = substr(arg, arg_as_option.name.start, arg_as_option.name.length))
    IN  SubSeq(found, 1, Min(1, Len(found)))

\* parse_long, the options of the wanted type whose name starts with the argument's
\* name and is longer
long_prefix_matches(arg, arg_as_option, type, options) ==
    SelectSeq(options, LAMBDA opt :
        /\ opt.type = type
        /\ opt.name.length > arg_as_option.name.length
        /\ substr(source, opt.name.start, arg_as_option.name.length)
             = substr(arg, arg_as_option.name.start, arg_as_option.name.length))

\* parse_long, from the match on: the value, the separator check, the resolved option
parse_long_value(argv, flags, idx, match, arg_as_option, want_suggestion, errs) ==
    LET v == IF has_value(match)
             THEN IF has_value(arg_as_option)
                  THEN [ errored |-> FALSE, idx |-> idx, arg_index |-> idx,
                         value_range |-> arg_as_option.value, errors |-> errs,
                         suggestion |-> << >> ]
                  ELSE IF idx + 1 < Len(argv)
                  THEN [ errored |-> FALSE, idx |-> idx + 1, arg_index |-> idx + 1,
                         value_range |-> range_t(0, Len(argv[idx + 2])), errors |-> errs,
                         suggestion |-> << >> ]
                  ELSE IF "flag_generate_suggestions" \in flags /\ want_suggestion
                  THEN [ errored |-> TRUE, idx |-> idx, arg_index |-> npos,
                         value_range |-> EmptyRange, errors |-> errs,
                         suggestion |-> substr(source, match.value.start, match.value.length) ]
                  ELSE [ errored |-> TRUE, idx |-> idx, arg_index |-> npos,
                         value_range |-> EmptyRange,
                         errors |-> append_error(errs, 0, "error_option_has_missing_argument", idx),
                         suggestion |-> << >> ]
             ELSE IF has_value(arg_as_option)
             THEN [ errored |-> TRUE, idx |-> idx, arg_index |-> npos,
                    value_range |-> EmptyRange,
                    errors |-> append_error(errs, 0, "error_option_unexpected_argument", idx),
                    suggestion |-> << >> ]
             ELSE [ errored |-> FALSE, idx |-> idx, arg_index |-> npos,
                    value_range |-> EmptyRange, errors |-> errs, suggestion |-> << >> ]
        wrong_separator ==
            /\ ~ v.errored
            /\ "flag_short_options_strict_separators" \in flags
            /\ arg_as_option.separator # match.separator
    IN  IF wrong_separator
        THEN parse_result(FALSE, v.idx, << >>,
                          append_error(v.errors, 0, "error_wrong_separator", v.idx),
                          v.suggestion, FALSE)
        ELSE IF v.errored
        THEN parse_result(FALSE, v.idx, << >>, v.errors, v.suggestion, FALSE)
        ELSE parse_result(TRUE, v.idx + 1,
                          << resolved_option_t(match, idx, v.arg_index, v.value_range) >>,
                          v.errors, v.suggestion, FALSE)

\* parse_long
parse_long(argv, type, flags, idx, options, want_suggestion) ==
    LET arg == argv[idx + 1]
        parsed == parse_option_from_argument(arg)
        arg_as_option == IF type = "single_long" /\ parsed.type = "single_short"
                         THEN [parsed EXCEPT !.type = "single_long"]
                         ELSE parsed
        exact == long_exact_matches(arg, arg_as_option, type, options)
        try_prefixes == exact = << >> /\ "flag_resolve_unambiguous_prefixes" \in flags
        prefix_matches == long_prefix_matches(arg, arg_as_option, type, options)
        matches == IF try_prefixes /\ Len(prefix_matches) = 1 THEN prefix_matches ELSE exact
        errs == IF try_prefixes /\ Len(prefix_matches) > 1
                THEN append_error(<< >>, 0, "error_ambiguous_prefix_match", idx)
                ELSE << >>
    IN  IF Len(matches) < 1
        THEN parse_result(FALSE, idx, << >>,
                          append_error(errs, 0, "error_unknown_option", idx), << >>, FALSE)
        ELSE [ parse_long_value(argv, flags, idx, matches[1], arg_as_option,
                                want_suggestion, errs)
               EXCEPT !.assert_failed = Len(matches) > 1 ]

\* parse_unseparated_short
parse_unseparated_short(argv, flags, idx, options) ==
    LET arg == argv[idx + 1]
        relaxed_separators == "flag_short_options_strict_separators" \notin flags
        matches == SelectSeq(options, LAMBDA opt :
                       /\ opt.type = "single_short"
                       /\ has_value(opt)
                       /\ (relaxed_separators \/ opt.separator = "sep_none")
                       /\ range_equals_string(opt.name, arg, 1, 1))
        assert_failed == ~ starts_with_dashes(arg, 1) \/ ~ (Len(arg) > 1) \/ Len(matches) > 1
    IN  IF Len(matches) = 1
        THEN IF Len(arg) <= 2
             THEN parse_result(FALSE, idx, << >>,
                               append_error(<< >>, 0, "error_option_has_missing_argument", idx),
                               << >>, assert_failed)
             ELSE parse_result(TRUE, idx + 1,
                               << resolved_option_t(matches[1], idx, idx,
                                                    range_t(2, Len(arg) - 2)) >>,
                               << >>, << >>, assert_failed)
        ELSE parse_result(FALSE, idx, << >>, << >>, << >>, assert_failed)

RECURSIVE short_chars(_, _, _, _, _)
\* parse_short, the loop over the characters after the dash, which stops at the first
\* character that names no short option
short_chars(arg, idx, idx_in_arg, options, acc) ==
    IF ~ (idx_in_arg < Len(arg)) \/ acc.errored THEN acc
    ELSE LET matches == SelectSeq(options, LAMBDA opt :
                            /\ opt.type = "single_short"
                            /\ range_equals_string(opt.name, arg, idx_in_arg, 1))
         IN  short_chars(arg, idx, idx_in_arg + 1, options,
                 IF Len(matches) < 1
                 THEN [ acc EXCEPT
                          !.errored = TRUE,
                          !.errors = append_error(@, idx_in_arg, "error_unknown_option", idx) ]
                 ELSE [ acc EXCEPT
                          !.options_for_argument = Append(@, matches[1]),
                          !.assert_failed = @ \/ Len(matches) > 1 ])

RECURSIVE short_value_errors(_, _, _, _)
\* parse_short: an error for every option that has a value and is not the last one
short_value_errors(options_for_argument, idx, i, errs) ==
    IF i >= Len(options_for_argument) THEN errs
    ELSE short_value_errors(options_for_argument, idx, i + 1,
             IF has_value(options_for_argument[i + 1]) /\ i + 1 # Len(options_for_argument)
             THEN append_error(errs, i + 1, "error_option_unexpected_argument", idx)
             ELSE errs)

\* parse_short
parse_short(argv, flags, idx, options, want_suggestion) ==
    LET arg == argv[idx + 1]
        scanned == short_chars(arg, idx, 1, options,
                       [ errored |-> FALSE, options_for_argument |-> << >>, errors |-> << >>,
                         assert_failed |-> ~ starts_with_dashes(arg, 1) \/ ~ (Len(arg) > 1) ])
        ofa == scanned.options_for_argument
        n == Len(ofa)
        errs1 == IF scanned.errored THEN scanned.errors
                 ELSE short_value_errors(ofa, idx, 0, scanned.errors)
        last_option_has_argument == ~ scanned.errored /\ n > 0 /\ has_value(ofa[n])
        need_value == ~ scanned.errored /\ last_option_has_argument
        have_next == idx + 1 < Len(argv)
        suggest == need_value /\ ~ have_next
                   /\ "flag_generate_suggestions" \in flags /\ want_suggestion
        missing == need_value /\ ~ have_next /\ ~ suggest
        errored == scanned.errored \/ suggest \/ missing
        val_idx_for_last_option == IF need_value /\ have_next THEN idx + 1 ELSE npos
        val_range_for_last_option == IF need_value /\ have_next
                                     THEN range_t(0, Len(argv[idx + 2])) ELSE EmptyRange
        errs2 == IF missing
                 THEN append_error(errs1, 0, "error_option_has_missing_argument", idx)
                 ELSE errs1
    IN  IF errored
        THEN parse_result(FALSE, idx, << >>, errs2,
                          IF suggest THEN substr(source, ofa[n].value.start, ofa[n].value.length)
                          ELSE << >>,
                          scanned.assert_failed)
        ELSE parse_result(TRUE, idx + (IF last_option_has_argument THEN 2 ELSE 1),
                          [ i \in 1..n |->
                              IF i = n /\ last_option_has_argument
                              THEN resolved_option_t(ofa[i], idx, val_idx_for_last_option,
                                                     val_range_for_last_option)
                              ELSE resolved_option_t(ofa[i], idx, npos, EmptyRange) ],
                          errs2, << >>, scanned.assert_failed)


\* The tokenizer's state: the cursor idx, the lists it fills, the suggestion, and
\* whether an assertion was false on the way
tok_t(idx, positionals, resolved_options, errs, suggestion, assert_failed) ==
    [ idx |-> idx, positionals |-> positionals, resolved_options |-> resolved_options,
      errors |-> errs, suggestion |-> suggestion, assert_failed |-> assert_failed ]

TokInit(errs) == tok_t(0, << >>, << >>, errs, << >>, FALSE)

later_of(s1, s2) == IF s2 # << >> THEN s2 ELSE s1

\* tok_double_dash taking the "--" itself as a positional too
tok_double_dash_inclusive(argv, t) ==
    [ t EXCEPT
        !.positionals = @ \o [i \in 1..(Len(argv) - t.idx) |-> t.idx + i - 1],
        !.idx = Len(argv) ]

\* separate_argv_into_options_and_positionals, the "--" branch
tok_double_dash(argv, t) ==
    [ t EXCEPT
        !.positionals = @ \o [i \in 1..(Len(argv) - (t.idx + 1)) |-> t.idx + i],
        !.idx = Len(argv) ]

\* tok_parsed moving the cursor by one argument whatever the parser consumed
tok_parsed_one_slot(t, r, errs, suggestion, assert_failed) ==
    tok_t(t.idx + 1, t.positionals, t.resolved_options \o r.resolved, errs, suggestion,
          t.assert_failed \/ assert_failed)

\* what a successful parse_long, parse_unseparated_short or parse_short leaves: the
\* cursor it moved and the resolved options it appended
tok_parsed(t, r, errs, suggestion, assert_failed) ==
    tok_t(r.idx, t.positionals, t.resolved_options \o r.resolved, errs, suggestion,
          t.assert_failed \/ assert_failed)

\* tok_after_double_long when out_suggestion is not handed to parse_long
tok_after_double_long_no_suggestion(t, has_errors, r) ==
    tok_t(IF r.success THEN r.idx ELSE r.idx + 1,
          t.positionals,
          t.resolved_options \o r.resolved,
          IF has_errors THEN t.errors \o r.errors ELSE t.errors,
          t.suggestion,
          t.assert_failed \/ r.assert_failed)

\* separate_argv_into_options_and_positionals, the branch of an argument that starts
\* with two dashes, r being what parse_long handed back
tok_after_double_long(t, has_errors, r) ==
    tok_t(IF r.success THEN r.idx ELSE r.idx + 1,
          t.positionals,
          t.resolved_options \o r.resolved,
          IF has_errors THEN t.errors \o r.errors ELSE t.errors,
          later_of(t.suggestion, r.suggestion),
          t.assert_failed \/ r.assert_failed)

tok_double_long(argv, options, flags, t, has_errors, want_suggestion) ==
    tok_after_double_long(t, has_errors,
        parse_long(argv, "double_long", flags, t.idx, options, want_suggestion))

\* tok_unparseable putting the long errors in front of the short ones
tok_unparseable_long_first(t, has_errors, r1, r2, r3) ==
    tok_t(r3.idx + 1, t.positionals, t.resolved_options,
          IF has_errors THEN r1.errors \o (r2.errors \o r3.errors) \o t.errors ELSE t.errors,
          later_of(later_of(t.suggestion, r1.suggestion), r3.suggestion),
          t.assert_failed \/ r1.assert_failed \/ r2.assert_failed \/ r3.assert_failed)

\* separate_argv_into_options_and_positionals, the branch of an argument that starts
\* with one dash, after parse_long (r1), parse_unseparated_short (r2) and parse_short
\* (r3) have all failed: the local errors go to the front of out_errors, the short ones
\* first, and the argument is skipped
tok_unparseable(t, has_errors, r1, r2, r3) ==
    tok_t(r3.idx + 1, t.positionals, t.resolved_options,
          IF has_errors THEN (r2.errors \o r3.errors) \o r1.errors \o t.errors ELSE t.errors,
          later_of(later_of(t.suggestion, r1.suggestion), r3.suggestion),
          t.assert_failed \/ r1.assert_failed \/ r2.assert_failed \/ r3.assert_failed)

\* the same branch, from the call of parse_short on
tok_after_short(t, has_errors, r1, r2, r3) ==
    IF r3.success
    THEN tok_parsed(t, r3, t.errors,
                    later_of(later_of(t.suggestion, r1.suggestion), r3.suggestion),
                    r1.assert_failed \/ r2.assert_failed \/ r3.assert_failed)
    ELSE tok_unparseable(t, has_errors, r1, r2, r3)

\* the same branch, from the call of parse_unseparated_short on
tok_after_unseparated_short(argv, options, flags, t, has_errors, want_suggestion, r1, r2) ==
    IF r2.success
    THEN tok_parsed(t, r2, t.errors, later_of(t.suggestion, r1.suggestion),
                    r1.assert_failed \/ r2.assert_failed)
    ELSE tok_after_short(t, has_errors, r1, r2,
                         parse_short(argv, flags, r2.idx, options, want_suggestion))

\* the same branch, from the call of parse_long on; the errors of the three attempts
\* are local lists
tok_after_single_long(argv, options, flags, t, has_errors, want_suggestion, r1) ==
    IF r1.success
    THEN tok_parsed(t, r1, t.errors, later_of(t.suggestion, r1.suggestion), r1.assert_failed)
    ELSE tok_after_unseparated_short(argv, options, flags, t, has_errors, want_suggestion, r1,
                                     parse_unseparated_short(argv, flags, r1.idx, options))

tok_single_dash(argv, options, flags, t, has_errors, want_suggestion) ==
    tok_after_single_long(argv, options, flags, t, has_errors, want_suggestion,
        parse_long(argv, "single_long", flags, t.idx, options, want_suggestion))

\* separate_argv_into_options_and_positionals, one turn of its loop
tok_step(argv, options, flags, t, has_errors, want_suggestion) ==
    LET arg == argv[t.idx + 1]
    IN  IF is_double_dash(arg) THEN tok_double_dash(argv, t)
        ELSE IF starts_with_dashes(arg, 2)
        THEN tok_double_long(argv, options, flags, t, has_errors, want_suggestion)
        ELSE IF starts_with_dashes(arg, 1) /\ Len(arg) > 1
        THEN tok_single_dash(argv, options, flags, t, has_errors, want_suggestion)
        ELSE [ t EXCEPT !.positionals = Append(@, t.idx), !.idx = @ + 1 ]

RECURSIVE tok_loop(_, _, _, _, _, _)
tok_loop(argv, options, flags, t, has_errors, want_suggestion) ==
    IF ~ (t.idx < Len(argv)) THEN t
    ELSE tok_loop(argv, options, flags,
                  tok_step(argv, options, flags, t, has_errors, want_suggestion),
                  has_errors, want_suggestion)

\* separate_argv_into_options_and_positionals: out_errors is given (has_errors) or
\* NULL, out_suggestion is given (want_suggestion) or NULL; errs is what out_errors
\* holds on entry
separate_argv_into_options_and_positionals(argv, options, flags, errs, has_errors, want_sugg) ==
    tok_loop(argv, options, flags, TokInit(errs), has_errors, want_sugg)


-----------------------------------------------------------------------------
(* The matcher: match states and the match context *)

\* base_argument_t as operator[] creates it
EmptyArg == [count |-> 0, values |-> << >>]

\* option_map_t: a function from names to arguments; operator[] reads what is stored
\* or a new empty argument
map_get(map, name) == IF name \in DOMAIN map THEN map[name] ELSE EmptyArg

map_put(map, name, arg) ==
    [k \in (DOMAIN map) \cup {name} |-> IF k = name THEN arg ELSE map[k]]

EmptyMap == [k \in {} |-> EmptyArg]

match_state_t(option_map, next_positional_index, consumed_options, suggested_next_arguments) ==
    [ option_map |-> option_map,
      next_positional_index |-> next_positional_index,
      consumed_options |-> consumed_options,
      suggested_next_arguments |-> suggested_next_arguments ]

RECURSIVE accumulate(_)
\* std::accumulate over the bitset: the number of set bits
accumulate(bits) ==
    IF bits = << >> THEN 0 ELSE (IF Head(bits) THEN 1 ELSE 0) + accumulate(Tail(bits))

\* match_state_t::progress
progress(state) ==
    state.next_positional_index + accumulate(state.consumed_options)
        + Cardinality(state.suggested_next_arguments)

\* match_context_t: flags, positionals, resolved_options, argv (is_in_square_brackets
\* is handed down as a parameter of match)
match_context_t(flags, positionals, resolved_options, argv) ==
    [ flags |-> flags, positionals |-> positionals,
      resolved_options |-> resolved_options, argv |-> argv ]

\* match_context_t::has_more_positionals
has_more_positionals(state, ctx) == state.next_positional_index < Len(ctx.positionals)

\* match_context_t::next_positional: the index in argv of the next positional
next_positional(state, ctx) == ctx.positionals[state.next_positional_index + 1]

\* match_context_t::acquire_next_positional: the state with the positional dequeued
acquire_next_positional(state) ==
    [state EXCEPT !.next_positional_index = @ + 1]

RECURSIVE index_list(_, _, _)
\* unused_arguments, the last loop: the indexes whose bit is not set, ascending
index_list(used_indexes, i, n) ==
    IF i >= n THEN << >>
    ELSE (IF i \in used_indexes THEN << >> ELSE << i >>) \o index_list(used_indexes, i + 1, n)

\* unused_arguments marking the name of a consumed option only, not its value
unused_arguments_names_only(state, ctx) ==
    LET n == Len(state.consumed_options)
        by_positionals ==
            {ctx.positionals[i] : i \in 1..state.next_positional_index}
        by_options ==
            {ctx.resolved_options[i].name_idx_in_argv :
                i \in {j \in 1..n : state.consumed_options[j]}}
        cleared ==
            {ctx.resolved_options[i].name_idx_in_argv :
                i \in {j \in 1..n : ~ state.consumed_options[j]}}
    IN  index_list((by_positionals \cup by_options) \ cleared, 0, Len(ctx.argv))

\* unused_arguments without the last walk, which clears the bit of every unconsumed
\* option's name
unused_arguments_no_clear(state, ctx) ==
    LET n == Len(state.consumed_options)
        by_positionals ==
            {ctx.positionals[i] : i \in 1..state.next_positional_index}
        by_options ==
            UNION { {ctx.resolved_options[i].name_idx_in_argv}
                    \cup (IF ctx.resolved_options[i].value_idx_in_argv # npos
                          THEN {ctx.resolved_options[i].value_idx_in_argv} ELSE {})
                    : i \in {j \in 1..n : state.consumed_options[j]} }
    IN  index_list(by_positionals \cup by_options, 0, Len(ctx.argv))

\* match_context_t::unused_arguments
unused_arguments(state, ctx) ==
    LET n == Len(state.consumed_options)
        by_positionals ==
            {ctx.positionals[i] : i \in 1..state.next_positional_index}
        by_options ==
            UNION { {ctx.resolved_options[i].name_idx_in_argv}
                    \cup (IF ctx.resolved_options[i].value_idx_in_argv # npos
                          THEN {ctx.resolved_options[i].value_idx_in_argv} ELSE {})
                    : i \in {j \in 1..n : state.consumed_options[j]} }
        cleared ==
            {ctx.resolved_options[i].name_idx_in_argv :
                i \in {j \in 1..n : ~ state.consumed_options[j]}}
    IN  index_list((by_positionals \cup by_options) \ cleared, 0, Len(ctx.argv))

\* init_state with the consumed bits sized by the argv, not by the resolved options
init_state_argv_sized(resolved_options) ==
    match_state_t(EmptyMap, 0, [i \in 1..(Len(resolved_options) + 1) |-> FALSE], {})

\* match_argv, the state the match starts from
init_state(resolved_options) ==
    match_state_t(EmptyMap, 0, [i \in 1..Len(resolved_options) |-> FALSE], {})

-----------------------------------------------------------------------------
(* The matcher: the clauses *)

\* match_options, the search of argv's resolved options for the first one not yet
\* consumed that has the option's name (its index from 0, or npos)
find_resolved(opt_in_doc, state, ctx) ==
    LET found == {i \in 1..Len(ctx.resolved_options) :
                     /\ ~ state.consumed_options[i]
                     /\ options_have_same_name(ctx.resolved_options[i].option, opt_in_doc)}
    IN  IF found = {} THEN npos
        ELSE (CHOOSE i \in found : \A k \in found : i <= k) - 1

\* take_resolved without arg->count += 1
take_resolved_uncounted(opt_in_doc, resolved_opt_idx, state, ctx) ==
    LET resolved_opt == ctx.resolved_options[resolved_opt_idx + 1]
        name == longest_name_as_string(opt_in_doc, source)
        arg == map_get(state.option_map, name)
        values == IF resolved_opt.value_idx_in_argv # npos
                  THEN Append(arg.values,
                              substr(ctx.argv[resolved_opt.value_idx_in_argv + 1],
                                     resolved_opt.value_range_in_arg.start,
                                     resolved_opt.value_range_in_arg.length))
                  ELSE arg.values
    IN  [ state EXCEPT
            !.option_map = map_put(@, name, [count |-> arg.count, values |-> values]),
            !.consumed_options[resolved_opt_idx + 1] = TRUE ]

\* match_options, the body of the loop for an option found in argv
take_resolved(opt_in_doc, resolved_opt_idx, state, ctx) ==
    LET resolved_opt == ctx.resolved_options[resolved_opt_idx + 1]
        name == longest_name_as_string(opt_in_doc, source)
        arg == map_get(state.option_map, name)
        values == IF resolved_opt.value_idx_in_argv # npos
                  THEN Append(arg.values,
                              substr(ctx.argv[resolved_opt.value_idx_in_argv + 1],
                                     resolved_opt.value_range_in_arg.start,
                                     resolved_opt.value_range_in_arg.length))
                  ELSE arg.values
    IN  [ state EXCEPT
            !.option_map = map_put(@, name, [count |-> arg.count + 1, values |-> values]),
            !.consumed_options[resolved_opt_idx + 1] = TRUE ]

RECURSIVE match_options_loop_no_skip(_, _, _, _)
\* match_options_loop without the skip of an option whose key range is already used
match_options_loop_no_skip(options_in_doc, j, acc, ctx) ==
    IF j >= Len(options_in_doc) THEN acc
    ELSE LET opt_in_doc == options_in_doc[j + 1]
             key_range == opt_in_doc.corresponding_long_name
             resolved_opt_idx == find_resolved(opt_in_doc, acc.state, ctx)
         IN  IF resolved_opt_idx # npos
             THEN match_options_loop_no_skip(options_in_doc, j + 1,
                      [ acc EXCEPT
                          !.state = take_resolved(opt_in_doc, resolved_opt_idx, acc.state, ctx),
                          !.successful_match = TRUE,
                          !.matched_long_ranges =
                              IF ~ range_empty(key_range) THEN Append(@, key_range) ELSE @ ],
                      ctx)
             ELSE match_options_loop_no_skip(options_in_doc, j + 1,
                      [ acc EXCEPT
                          !.potential_suggestions =
                              IF "flag_generate_suggestions" \in ctx.flags
                              THEN Append(@, opt_in_doc) ELSE @ ],
                      ctx)

RECURSIVE match_options_loop(_, _, _, _)
\* match_options, the loop over options_in_doc; acc holds the state, the matched long
\* ranges, the potential suggestions and successful_match
match_options_loop(options_in_doc, j, acc, ctx) ==
    IF j >= Len(options_in_doc) THEN acc
    ELSE LET opt_in_doc == options_in_doc[j + 1]
             key_range == opt_in_doc.corresponding_long_name
             resolved_opt_idx == find_resolved(opt_in_doc, acc.state, ctx)
         IN  IF ~ range_empty(key_range) /\ key_range \in SeqToSet(acc.matched_long_ranges)
             THEN match_options_loop(options_in_doc, j + 1, acc, ctx)
             ELSE IF resolved_opt_idx # npos
             THEN match_options_loop(options_in_doc, j + 1,
                      [ acc EXCEPT
                          !.state = take_resolved(opt_in_doc, resolved_opt_idx, acc.state, ctx),
                          !.successful_match = TRUE,
                          !.matched_long_ranges =
                              IF ~ range_empty(key_range) THEN Append(@, key_range) ELSE @ ],
                      ctx)
             ELSE match_options_loop(options_in_doc, j + 1,
                      [ acc EXCEPT
                          !.potential_suggestions =
                              IF "flag_generate_suggestions" \in ctx.flags
                              THEN Append(@, opt_in_doc) ELSE @ ],
                      ctx)

\* match_options, after the loop: the potential suggestions whose long name was not
\* matched
suggestions_made(potential_suggestions, matched_long_ranges) ==
    { name_as_string(potential_suggestions[i], source) :
        i \in { k \in 1..Len(potential_suggestions) :
                  \/ range_empty(potential_suggestions[k].corresponding_long_name)
                  \/ potential_suggestions[k].corresponding_long_name
                         \notin SeqToSet(matched_long_ranges) } }

\* match_options handing back its state after a successful match only, not after a
\* suggestion alone
match_options_result_on_match_only(acc, flags) ==
    IF acc.successful_match
    THEN IF "flag_generate_suggestions" \in flags
         THEN << [ acc.state EXCEPT !.suggested_next_arguments =
                     @ \cup suggestions_made(acc.potential_suggestions,
                                             acc.matched_long_ranges) ] >>
         ELSE << acc.state >>
    ELSE << >>

\* match_options, after the loop: the list of the one updated state, or no match
match_options_result(acc, flags) ==
    IF "flag_generate_suggestions" \in flags
    THEN IF acc.successful_match
            \/ suggestions_made(acc.potential_suggestions, acc.matched_long_ranges) # {}
         THEN << [ acc.state EXCEPT !.suggested_next_arguments =
                     @ \cup suggestions_made(acc.potential_suggestions,
                                             acc.matched_long_ranges) ] >>
         ELSE << >>
    ELSE IF acc.successful_match THEN << acc.state >> ELSE << >>

\* match_options
match_options(options_in_doc, state, ctx) ==
    match_options_result(
        match_options_loop(options_in_doc, 0,
            [ state |-> state, matched_long_ranges |-> << >>,
              potential_suggestions |-> << >>, successful_match |-> FALSE ], ctx),
        ctx.flags)

\* match(option_clause_t), after match_options has handed back result
option_clause_result(node, state, ctx, is_in_square_brackets, result) ==
    IF result # << >> THEN result
    ELSE IF is_in_square_brackets \/ "flag_match_allow_incomplete" \in ctx.flags
    THEN IF "flag_generate_suggestions" \in ctx.flags
         THEN << [ state EXCEPT !.suggested_next_arguments =
                     @ \cup {name_as_string(node.option, source)} ] >>
         ELSE << state >>
    ELSE << >>

\* match(option_clause_t)
match_option_clause(node, state, ctx, is_in_square_brackets) ==
    option_clause_result(node, state, ctx, is_in_square_brackets,
                         match_options(<< node.option >>, state, ctx))

\* match_fixed_clause treating a positional with another text as no positional at all
match_fixed_clause_lenient(node, state, ctx) ==
    LET range == node.word
        suggested ==
            IF "flag_generate_suggestions" \in ctx.flags
            THEN [ state EXCEPT !.suggested_next_arguments =
                       @ \cup {substr(source, range.start, range.length)} ]
            ELSE state
        passed == IF "flag_match_allow_incomplete" \in ctx.flags THEN << suggested >> ELSE << >>
    IN  IF has_more_positionals(state, ctx)
        THEN LET name == ctx.argv[next_positional(state, ctx) + 1]
                 arg == map_get(state.option_map, name)
             IN  IF Len(name) = range.length /\ range_equals_string(range, name, 0, Len(name))
                 THEN << acquire_next_positional(
                           [ state EXCEPT !.option_map =
                               map_put(@, name, [arg EXCEPT !.count = @ + 1]) ]) >>
                 ELSE passed
        ELSE passed

\* match(fixed_clause_t)
match_fixed_clause(node, state, ctx) ==
    LET range == node.word
    IN  IF has_more_positionals(state, ctx)
        THEN LET name == ctx.argv[next_positional(state, ctx) + 1]
                 arg == map_get(state.option_map, name)
             IN  IF Len(name) = range.length /\ range_equals_string(range, name, 0, Len(name))
                 THEN << acquire_next_positional(
                           [ state EXCEPT !.option_map =
                               map_put(@, name, [arg EXCEPT !.count = @ + 1]) ]) >>
                 ELSE << >>
        ELSE LET suggested ==
                     IF "flag_generate_suggestions" \in ctx.flags
                     THEN [ state EXCEPT !.suggested_next_arguments =
                                @ \cup {substr(source, range.start, range.length)} ]
                     ELSE state
             IN  IF "flag_match_allow_incomplete" \in ctx.flags THEN << suggested >> ELSE << >>

\* match(variable_clause_t)
match_variable_clause(node, state, ctx) ==
    LET range == node.word
        name == substr(source, range.start, range.length)
    IN  IF has_more_positionals(state, ctx)
        THEN LET arg == map_get(state.option_map, name)
                 value == ctx.argv[next_positional(state, ctx) + 1]
             IN  << acquire_next_positional(
                       [ state EXCEPT !.option_map =
                           map_put(@, name, [arg EXCEPT !.values = Append(@, value)]) ]) >>
        ELSE LET suggested ==
                     IF "flag_generate_suggestions" \in ctx.flags
                     THEN [ state EXCEPT !.suggested_next_arguments = @ \cup {name} ]
                     ELSE state
             IN  IF "flag_match_allow_incomplete" \in ctx.flags THEN << suggested >> ELSE << >>


-----------------------------------------------------------------------------
(* The matcher: the tree descent *)

\* keep_progress without the filter
keep_progress_unfiltered(child_result, init_progress, require_progress) ==
    child_result

\* try_match over a state list, the filter under require_progress: the results whose
\* progress is the parent's are tossed
keep_progress(child_result, init_progress, require_progress) ==
    IF require_progress
    THEN SelectSeq(child_result, LAMBDA s : progress(s) # init_progress)
    ELSE child_result

RECURSIVE match(_, _, _, _)
RECURSIVE try_match_list(_, _, _, _, _)
RECURSIVE ellipsis_loop(_, _, _, _, _, _)

\* try_match(ptr, state_list, ctx, require_progress): the matches of the node against
\* every state of the list, in order (the list is split in halves to keep the
\* evaluation shallow; the result is that of the loop from the first state to the last)
try_match_list(node, state_list, ctx, is_in_square_brackets, require_progress) ==
    IF node = Null \/ state_list = << >> THEN << >>
    ELSE IF Len(state_list) = 1
    THEN keep_progress(match(node, state_list[1], ctx, is_in_square_brackets),
                       progress(state_list[1]), require_progress)
    ELSE try_match_list(node, SubSeq(state_list, 1, Len(state_list) \div 2), ctx,
                        is_in_square_brackets, require_progress)
         \o try_match_list(node, SubSeq(state_list, Len(state_list) \div 2 + 1, Len(state_list)),
                           ctx, is_in_square_brackets, require_progress)

\* match(expression_t), the loop of an expression with ellipsis: every round matches
\* the child against the states of the round before and appends what made progress;
\* `rounds` counts the rounds left before the model stops following the loop
ellipsis_loop(child, intermediate_states, result, ctx, is_in_square_brackets, rounds) ==
    IF intermediate_states = << >> \/ rounds = 0 THEN result
    ELSE LET next_states == try_match_list(child, intermediate_states, ctx,
                                           is_in_square_brackets, TRUE)
         IN  ellipsis_loop(child, next_states, result \o next_states, ctx,
                           is_in_square_brackets, rounds - 1)

\* match(expression_t), the child the production matches and the value it gives
\* is_in_square_brackets while it does
expression_child(node) ==
    IF node.production = 0 THEN node.simple_clause ELSE node.alternation_list

expression_isb(node, is_in_square_brackets) ==
    IF node.production = 0 THEN is_in_square_brackets ELSE node.production = 2

\* the state a default-constructed match_state_t holds: what swap leaves in *state
\* when state_destructive_append_to moves the state into a list
MovedFrom == match_state_t(EmptyMap, 0, << >>, {})

\* what match_options leaves in *state
match_options_leaves(acc, flags) ==
    IF "flag_generate_suggestions" \in flags
    THEN IF acc.successful_match
            \/ suggestions_made(acc.potential_suggestions, acc.matched_long_ranges) # {}
         THEN MovedFrom
         ELSE acc.state
    ELSE IF acc.successful_match THEN MovedFrom ELSE acc.state

\* what match(option_clause_t) leaves in *state
option_clause_leaves(node, state, ctx, is_in_square_brackets) ==
    LET left == match_options_leaves(
                    match_options_loop(<< node.option >>, 0,
                        [ state |-> state, matched_long_ranges |-> << >>,
                          potential_suggestions |-> << >>, successful_match |-> FALSE ], ctx),
                    ctx.flags)
    IN  IF match_options(<< node.option >>, state, ctx) # << >> THEN left
        ELSE IF is_in_square_brackets \/ "flag_match_allow_incomplete" \in ctx.flags
        THEN MovedFrom
        ELSE IF "flag_generate_suggestions" \in ctx.flags
        THEN [ left EXCEPT !.suggested_next_arguments =
                 @ \cup {name_as_string(node.option, source)} ]
        ELSE left

\* what match(fixed_clause_t) and match(variable_clause_t) leave in *state when there
\* is no positional left
no_positional_leaves(node, state, ctx) ==
    IF "flag_match_allow_incomplete" \in ctx.flags THEN MovedFrom
    ELSE IF "flag_generate_suggestions" \in ctx.flags
    THEN [ state EXCEPT !.suggested_next_arguments =
             @ \cup {substr(source, node.word.start, node.word.length)} ]
    ELSE state

RECURSIVE state_after_match(_, _, _, _)
\* The matchers take the state by pointer and change it in place: what *state holds
\* when match(node, state, ctx) has returned
state_after_match(node, state, ctx, is_in_square_brackets) ==
    CASE node.kind = "null" -> state
      [] node.kind = "usage" ->
            IF ~ has_more_positionals(state, ctx) \/ range_empty(node.prog_name)
            THEN state
            ELSE IF node.alternation_list # Null
            THEN state_after_match(node.alternation_list, acquire_next_positional(state),
                                   ctx, is_in_square_brackets)
            ELSE MovedFrom
      [] node.kind = "expression_list" ->
            state_after_match(node.expression, state, ctx, is_in_square_brackets)
      [] node.kind = "opt_expression_list" ->
            state_after_match(node.expression_list, state, ctx, is_in_square_brackets)
      [] node.kind = "alternation_list" ->
            state_after_match(node.expression_list, state, ctx, is_in_square_brackets)
      [] node.kind = "or_continuation" ->
            state_after_match(node.alternation_list, state, ctx, is_in_square_brackets)
      [] node.kind = "expression" ->
            IF node.production = 3 THEN MovedFrom
            ELSE state_after_match(expression_child(node), state, ctx,
                                   expression_isb(node, is_in_square_brackets))
      [] node.kind = "option_clause" ->
            option_clause_leaves(node, state, ctx, is_in_square_brackets)
      [] node.kind = "fixed_clause" ->
            IF has_more_positionals(state, ctx)
            THEN IF match_fixed_clause(node, state, ctx) # << >> THEN MovedFrom ELSE state
            ELSE no_positional_leaves(node, state, ctx)
      [] node.kind = "variable_clause" ->
            IF has_more_positionals(state, ctx) THEN MovedFrom
            ELSE no_positional_leaves(node, state, ctx)

\* match(alternation_list_t) handing the or_continuation the state the left branch has
\* worked on, not a copy made before
match_alternation_list_uncopied(node, state, ctx, is_in_square_brackets) ==
    match(node.expression_list, state, ctx, is_in_square_brackets)
        \o match(node.or_continuation,
                 state_after_match(node.expression_list, state, ctx, is_in_square_brackets),
                 ctx, is_in_square_brackets)

\* match(alternation_list_t): the left branch on the state, the or_continuation on the
\* copy of the state made before
match_alternation_list(node, state, ctx, is_in_square_brackets) ==
    match(node.expression_list, state, ctx, is_in_square_brackets)
        \o match(node.or_continuation, state, ctx, is_in_square_brackets)

\* match(expression_t), case 3, after match_options has handed back result
options_shortcut_result(state, ctx, result) ==
    IF result # << >> THEN result
    ELSE IF "flag_generate_suggestions" \in ctx.flags
    THEN << [ state EXCEPT !.suggested_next_arguments =
                @ \cup { name_as_string(shortcut_options[i], source) :
                           i \in 1..Len(shortcut_options) } ] >>
    ELSE << state >>

\* match(expression_t), case 3: the [options] clause
match_options_shortcut(state, ctx) ==
    options_shortcut_result(state, ctx, match_options(shortcut_options, state, ctx))

\* match_expression appending, for square brackets, the state as the child match has
\* left it, not the copy made before
match_expression_uncopied(node, state, ctx, is_in_square_brackets) ==
    LET child == expression_child(node)
        isb == expression_isb(node, is_in_square_brackets)
        first == match(child, state, ctx, isb)
        result == IF node.opt_ellipsis
                  THEN ellipsis_loop(child, first, first, ctx, isb, MaxRounds)
                  ELSE first
    IN  IF node.production = 2
        THEN Append(result, state_after_match(child, state, ctx, isb))
        ELSE result

\* match(expression_t), cases 0 to 2
match_expression(node, state, ctx, is_in_square_brackets) ==
    LET child == expression_child(node)
        isb == expression_isb(node, is_in_square_brackets)
        first == match(child, state, ctx, isb)
        result == IF node.opt_ellipsis
                  THEN ellipsis_loop(child, first, first, ctx, isb, MaxRounds)
                  ELSE first
    IN  IF node.production = 2 THEN Append(result, state) ELSE result

\* The match overloads, and try_match on one state (a null pointer matches nothing)
match(node, state, ctx, is_in_square_brackets) ==
    CASE node.kind = "null" -> << >>
      [] node.kind = "usage" ->
            IF ~ has_more_positionals(state, ctx) \/ range_empty(node.prog_name)
            THEN << >>
            ELSE LET main_branch ==
                         IF node.alternation_list # Null
                         THEN match(node.alternation_list, acquire_next_positional(state),
                                    ctx, is_in_square_brackets)
                         ELSE << acquire_next_positional(state) >>
                 IN  main_branch \o match(node.next_usage, state, ctx, is_in_square_brackets)
      [] node.kind = "expression_list" ->
            try_match_list(node.opt_expression_list,
                           match(node.expression, state, ctx, is_in_square_brackets),
                           ctx, is_in_square_brackets, FALSE)
      [] node.kind = "opt_expression_list" ->
            IF node.expression_list # Null
            THEN match(node.expression_list, state, ctx, is_in_square_brackets)
            ELSE << state >>
      [] node.kind = "alternation_list" ->
            match_alternation_list(node, state, ctx, is_in_square_brackets)
      [] node.kind = "or_continuation" ->
            match(node.alternation_list, state, ctx, is_in_square_brackets)
      [] node.kind = "expression" ->
            IF node.production = 3 THEN match_options_shortcut(state, ctx)
            ELSE match_expression(node, state, ctx, is_in_square_brackets)
      [] node.kind = "option_clause" ->
            match_option_clause(node, state, ctx, is_in_square_brackets)
      [] node.kind = "fixed_clause" -> match_fixed_clause(node, state, ctx)
      [] node.kind = "variable_clause" -> match_variable_clause(node, state, ctx)

RECURSIVE ellipsis_calls(_, _, _, _)
RECURSIVE ellipsis_calls_list(_, _, _, _)

\* the calls below, over a list of states
ellipsis_calls_list(node, state_list, ctx, is_in_square_brackets) ==
    UNION { ellipsis_calls(node, state_list[i], ctx, is_in_square_brackets) :
              i \in 1..Len(state_list) }

\* The calls of match(expression_t) on an expression with ellipsis that one call of
\* match makes, each as [node, state, isb]: the descent of match, collecting
ellipsis_calls(node, state, ctx, is_in_square_brackets) ==
    CASE node.kind = "usage" ->
            IF ~ has_more_positionals(state, ctx) \/ range_empty(node.prog_name)
            THEN {}
            ELSE ellipsis_calls(node.alternation_list, acquire_next_positional(state),
                                ctx, is_in_square_brackets)
                 \cup ellipsis_calls(node.next_usage, state, ctx, is_in_square_brackets)
      [] node.kind = "expression_list" ->
            ellipsis_calls(node.expression, state, ctx, is_in_square_brackets)
            \cup ellipsis_calls_list(node.opt_expression_list,
                                     match(node.expression, state, ctx, is_in_square_brackets),
                                     ctx, is_in_square_brackets)
      [] node.kind = "opt_expression_list" ->
            ellipsis_calls(node.expression_list, state, ctx, is_in_square_brackets)
      [] node.kind = "alternation_list" ->
            ellipsis_calls(node.expression_list, state, ctx, is_in_square_brackets)
            \cup ellipsis_calls(node.or_continuation, state, ctx, is_in_square_brackets)
      [] node.kind = "or_continuation" ->
            ellipsis_calls(node.alternation_list, state, ctx, is_in_square_brackets)
      [] node.kind = "expression" /\ node.production # 3 ->
            LET child == expression_child(node)
                isb == expression_isb(node, is_in_square_brackets)
                first == match(child, state, ctx, isb)
                looped == IF node.opt_ellipsis
                          THEN ellipsis_loop(child, first, first, ctx, isb, MaxRounds)
                          ELSE << >>
            IN  (IF node.opt_ellipsis
                 THEN {[node |-> node, state |-> state, isb |-> is_in_square_brackets]}
                 ELSE {})
                \cup ellipsis_calls(child, state, ctx, isb)
                \cup ellipsis_calls_list(child, looped, ctx, isb)
      [] OTHER -> {}


-----------------------------------------------------------------------------
(* Finalization and the choice of the best state *)

RECURSIVE finalize_options_always(_, _, _)
\* finalize_options appending the default value also to an entry that has values
finalize_options_always(result, all_opts, i) ==
    IF i >= Len(all_opts) THEN result
    ELSE LET opt == all_opts[i + 1]
             name == longest_name_as_string(opt, source)
             arg == map_get(result, name)
             filled == IF ~ range_empty(opt.default_value_range)
                       THEN [ arg EXCEPT !.values =
                                Append(@, substr(source, opt.default_value_range.start,
                                                 opt.default_value_range.length)) ]
                       ELSE arg
         IN  finalize_options_always(map_put(result, name, filled), all_opts, i + 1)

RECURSIVE finalize_options(_, _, _)
\* finalize_option_map, the loop over all_options: operator[] on the longest name, and
\* the default value for an entry that has no values
finalize_options(result, all_opts, i) ==
    IF i >= Len(all_opts) THEN result
    ELSE LET opt == all_opts[i + 1]
             name == longest_name_as_string(opt, source)
             arg == map_get(result, name)
             filled == IF ~ range_empty(opt.default_value_range) /\ arg.values = << >>
                       THEN [ arg EXCEPT !.values =
                                Append(@, substr(source, opt.default_value_range.start,
                                                 opt.default_value_range.length)) ]
                       ELSE arg
         IN  finalize_options(map_put(result, name, filled), all_opts, i + 1)

RECURSIVE finalize_ranges(_, _, _)
\* finalize_option_map, the loops over the variables and the static arguments:
\* operator[] on the text of each range
finalize_ranges(result, ranges, i) ==
    IF i >= Len(ranges) THEN result
    ELSE LET name == substr(source, ranges[i + 1].start, ranges[i + 1].length)
         IN  finalize_ranges(map_put(result, name, map_get(result, name)), ranges, i + 1)

\* finalize_option_map without the loop over the static arguments
finalize_option_map_no_static(map, all_opts, all_vars, flags) ==
    IF "flag_generate_empty_args" \notin flags THEN map
    ELSE finalize_ranges(finalize_options(map, all_opts, 0), all_vars, 0)

\* finalize_option_map without the early return for a call without
\* flag_generate_empty_args
finalize_option_map_unconditional(map, all_opts, all_vars, flags) ==
    finalize_ranges(
        finalize_ranges(finalize_options(map, all_opts, 0), all_vars, 0),
        all_static_arguments, 0)

\* finalize_option_map
finalize_option_map(map, all_opts, all_vars, flags) ==
    IF "flag_generate_empty_args" \notin flags THEN map
    ELSE finalize_ranges(
             finalize_ranges(finalize_options(map, all_opts, 0), all_vars, 0),
             all_static_arguments, 0)

RECURSIVE best_state_loop_last(_, _, _, _, _)
\* best_state_loop taking a later state that has as few unused arguments as the best
best_state_loop_last(result, ctx, i, best_state_idx, best_unused_args) ==
    IF i >= Len(result)
    THEN [best_state_idx |-> best_state_idx, best_unused_args |-> best_unused_args]
    ELSE LET unused_args == unused_arguments(result[i + 1], ctx)
         IN  IF i = 0 \/ Len(unused_args) <= Len(best_unused_args)
             THEN IF Len(unused_args) = 0
                  THEN [best_state_idx |-> i, best_unused_args |-> unused_args]
                  ELSE best_state_loop_last(result, ctx, i + 1, i, unused_args)
             ELSE best_state_loop_last(result, ctx, i + 1, best_state_idx, best_unused_args)

RECURSIVE best_state_loop(_, _, _, _, _)
\* match_argv, the loop that finds the state with the fewest unused arguments; it
\* stops at the first state with none
best_state_loop(result, ctx, i, best_state_idx, best_unused_args) ==
    IF i >= Len(result)
    THEN [best_state_idx |-> best_state_idx, best_unused_args |-> best_unused_args]
    ELSE LET unused_args == unused_arguments(result[i + 1], ctx)
         IN  IF i = 0 \/ Len(unused_args) < Len(best_unused_args)
             THEN IF Len(unused_args) = 0
                  THEN [best_state_idx |-> i, best_unused_args |-> unused_args]
                  ELSE best_state_loop(result, ctx, i + 1, i, unused_args)
             ELSE best_state_loop(result, ctx, i + 1, best_state_idx, best_unused_args)

\* match_argv_result reporting nothing as unused when there is no state
match_argv_result_none_unused(result, ctx, all_opts, all_vars) ==
    LET best == best_state_loop(result, ctx, 0, npos, << >>)
    IN  IF best.best_state_idx # npos
        THEN [ map |-> finalize_option_map(result[best.best_state_idx + 1].option_map,
                                           all_opts, all_vars, ctx.flags),
               unused |-> best.best_unused_args,
               best_state_idx |-> best.best_state_idx ]
        ELSE [ map |-> finalize_option_map(EmptyMap, all_opts, all_vars, ctx.flags),
               unused |-> << >>,
               best_state_idx |-> npos ]

\* match_argv, from the matcher's result list on: the map and the unused arguments
match_argv_result(result, ctx, all_opts, all_vars) ==
    LET best == best_state_loop(result, ctx, 0, npos, << >>)
    IN  IF best.best_state_idx # npos
        THEN [ map |-> finalize_option_map(result[best.best_state_idx + 1].option_map,
                                           all_opts, all_vars, ctx.flags),
               unused |-> best.best_unused_args,
               best_state_idx |-> best.best_state_idx ]
        ELSE [ map |-> finalize_option_map(EmptyMap, all_opts, all_vars, ctx.flags),
               unused |-> [i \in 1..Len(ctx.argv) |-> i - 1],
               best_state_idx |-> npos ]

\* match_argv
match_argv(argv, flags, positionals, resolved_options, all_opts, all_vars) ==
    LET ctx == match_context_t(flags, positionals, resolved_options, argv)
    IN  match_argv_result(match(parse_tree, init_state(resolved_options), ctx, FALSE),
                          ctx, all_opts, all_vars)


-----------------------------------------------------------------------------
(* The instance and its public calls *)

\* the flag sets the calls are made with
FlagSets ==
    { {},
      {"flag_resolve_unambiguous_prefixes"},
      {"flag_short_options_strict_separators"},
      {"flag_resolve_unambiguous_prefixes", "flag_short_options_strict_separators"},
      {"flag_generate_empty_args"},
      {"flag_resolve_unambiguous_prefixes", "flag_generate_empty_args"},
      {"flag_generate_suggestions"},
      {"flag_match_allow_incomplete"},
      {"flag_generate_suggestions", "flag_match_allow_incomplete"},
      AllFlags }

\* the argument vectors the calls are made with: the program name and up to MaxArgvLen
\* tokens of the document, or up to MaxBareLen tokens without a program name
Argvs(d) ==
    { << t_prog >> \o r : r \in SeqsUpTo(d.tokens, MaxArgvLen) }
        \cup SeqsUpTo(d.tokens, MaxBareLen)

NoCall == [op |-> "none", argv |-> << >>, flags |-> {}]
NoResult == [op |-> "none"]
NoEll == [node |-> Null]

\* the match context of the call in progress
Ctx == match_context_t(call.flags, tok.positionals, tok.resolved_options, call.argv)

\* docopt_impl's constructor: the instance holds the doc text and nothing else yet
InitOf(d) ==
    /\ doc = d
    /\ source = d.source
    /\ pc = "new"
    /\ parse_tree = Null
    /\ shortcut_options = << >>
    /\ usage_options = << >>
    /\ all_options = << >>
    /\ all_variables = << >>
    /\ all_static_arguments = << >>
    /\ errors = << >>
    /\ call = NoCall
    /\ tok = TokInit(<< >>)
    /\ states = << >>
    /\ out = NoResult
    /\ prev = NoResult
    /\ ell = NoEll

Init == \E d \in SeqToSet(Docs) : InitOf(d)

\* set_doc: preflight of the new instance
Preflight ==
    /\ pc = "new"
    /\ LET p == preflight(doc)
       IN  /\ parse_tree' = p.parse_tree
           /\ usage_options' = p.usage_options
           /\ shortcut_options' = p.shortcut_options
           /\ all_options' = p.all_options
           /\ all_variables' = p.all_variables
           /\ all_static_arguments' = p.all_static_arguments
           /\ errors' = p.errors
    /\ pc' = "ready"
    /\ UNCHANGED << doc, source, call, tok, states, out, prev, ell >>

\* best_assignment_for_argv without the clear() of the instance's errors
errors_on_entry_kept(errs) == errs

\* best_assignment_for_argv, its first statement: this->errors.clear()
errors_on_entry(errs) == << >>

\* parse_arguments / best_assignment_for_argv, the entry of the first call
ParseBegin ==
    /\ pc = "ready"
    /\ out = NoResult
    /\ \E argv \in Argvs(doc), flags \in FlagSets :
           call' = [op |-> "parse", argv |-> argv, flags |-> flags]
    /\ errors' = errors_on_entry(errors)
    /\ tok' = TokInit(errors')
    /\ pc' = "tokenize"
    /\ UNCHANGED << doc, source, parse_tree, shortcut_options, usage_options, all_options,
                    all_variables, all_static_arguments, states, out, prev, ell >>

\* a second call on the same instance, with the argv and the flags of the first
ParseAgain ==
    /\ pc = "ready"
    /\ out # NoResult
    /\ prev = NoResult
    /\ prev' = out
    /\ errors' = errors_on_entry(errors)
    /\ tok' = TokInit(errors')
    /\ pc' = "tokenize"
    /\ UNCHANGED << doc, source, parse_tree, shortcut_options, usage_options, all_options,
                    all_variables, all_static_arguments, call, states, out, ell >>

\* separate_argv_into_options_and_positionals, one turn of its loop, with this->errors
\* as out_errors and no out_suggestion
Tokenize ==
    /\ pc = "tokenize"
    /\ tok.idx < Len(call.argv)
    /\ tok' = tok_step(call.argv, all_options, call.flags, tok, TRUE, FALSE)
    /\ errors' = tok'.errors
    /\ UNCHANGED << doc, source, pc, parse_tree, shortcut_options, usage_options, all_options,
                    all_variables, all_static_arguments, call, states, out, prev, ell >>

\* match_argv, the match of the tree from the initial state
Match ==
    /\ pc = "tokenize"
    /\ ~ (tok.idx < Len(call.argv))
    /\ states' = match(parse_tree, init_state(tok.resolved_options), Ctx, FALSE)
    /\ pc' = "select"
    /\ UNCHANGED << doc, source, parse_tree, shortcut_options, usage_options, all_options,
                    all_variables, all_static_arguments, errors, call, tok, out, prev, ell >>

\* the progress of the parent of every state try_match keeps, in the order of the list
RECURSIVE derived_from(_, _, _, _)
derived_from(child, state_list, ctx, is_in_square_brackets) ==
    IF state_list = << >> THEN << >>
    ELSE IF Len(state_list) = 1
    THEN [i \in 1..Len(keep_progress(match(child, state_list[1], ctx, is_in_square_brackets),
                                     progress(state_list[1]), TRUE))
            |-> progress(state_list[1])]
    ELSE derived_from(child, SubSeq(state_list, 1, Len(state_list) \div 2), ctx,
                      is_in_square_brackets)
         \o derived_from(child, SubSeq(state_list, Len(state_list) \div 2 + 1, Len(state_list)),
                         ctx, is_in_square_brackets)

\* match(expression_t) on an expression with ellipsis, followed round by round: the
\* first match of the child
EllipsisBegin ==
    /\ pc = "tokenize"
    /\ ~ (tok.idx < Len(call.argv))
    /\ \E c \in ellipsis_calls(parse_tree, init_state(tok.resolved_options), Ctx, FALSE) :
           LET child == expression_child(c.node)
               isb == expression_isb(c.node, c.isb)
               first == match(child, c.state, Ctx, isb)
           IN  ell' = [ node |-> c.node, isb |-> isb, entry |-> c.state,
                        intermediate_states |-> first, result |-> first, round |-> 0,
                        init_progress |-> [i \in 1..Len(first) |-> npos] ]
    /\ pc' = "ellipsis"
    /\ UNCHANGED << doc, source, parse_tree, shortcut_options, usage_options, all_options,
                    all_variables, all_static_arguments, errors, call, tok, states, out, prev >>

\* one round of the loop: the child against the intermediate states, progress required
EllipsisRound ==
    /\ pc = "ellipsis"
    /\ ell.intermediate_states # << >>
    /\ ell.round < MaxRounds
    /\ LET child == expression_child(ell.node)
           next_states == try_match_list(child, ell.intermediate_states, Ctx, ell.isb, TRUE)
       IN  ell' = [ ell EXCEPT
                      !.intermediate_states = next_states,
                      !.result = @ \o next_states,
                      !.round = @ + 1,
                      !.init_progress =
                          derived_from(child, ell.intermediate_states, Ctx, ell.isb) ]
    /\ UNCHANGED << doc, source, pc, parse_tree, shortcut_options, usage_options, all_options,
                    all_variables, all_static_arguments, errors, call, tok, states, out, prev >>

\* the loop ends on an empty round; the match goes on to its end
EllipsisEnd ==
    /\ pc = "ellipsis"
    /\ ell.intermediate_states = << >>
    /\ states' = match(parse_tree, init_state(tok.resolved_options), Ctx, FALSE)
    /\ ell' = NoEll
    /\ pc' = "select"
    /\ UNCHANGED << doc, source, parse_tree, shortcut_options, usage_options, all_options,
                    all_variables, all_static_arguments, errors, call, tok, out, prev >>

\* match_argv from the result list on, and the end of best_assignment_for_argv: the
\* errors are passed along and this->errors is cleared
ParseReturn ==
    /\ pc = "select"
    /\ call.op = "parse"
    /\ LET r == match_argv_result(states, Ctx, all_options, all_variables)
       IN  out' = [ op |-> call.op, map |-> r.map, unused |-> r.unused, errors |-> errors ]
    /\ errors' = << >>
    /\ pc' = "ready"
    /\ UNCHANGED << doc, source, parse_tree, shortcut_options, usage_options, all_options,
                    all_variables, all_static_arguments, call, tok, states, prev, ell >>

Next ==
    \/ Preflight
    \/ ParseBegin
    \/ ParseAgain
    \/ Tokenize
    \/ Match
    \/ EllipsisBegin
    \/ EllipsisRound
    \/ EllipsisEnd
    \/ ParseReturn

Spec == Init /\ [][Next]_vars


-----------------------------------------------------------------------------
(* Properties: the choice of the best state and the unused arguments *)

\* a parse call has returned, and its argv, tokens and match states are still in view
Returned == pc = "ready" /\ out # NoResult

\* the number of unused argv indices of the i-th state of the matcher's result list
UnusedCount(i) == Len(unused_arguments(states[i], Ctx))

\* the first state of the result list among those with the fewest unused argv indices
FirstFewest ==
    CHOOSE b \in 1..Len(states) :
        /\ \A j \in 1..Len(states) : UnusedCount(b) <= UnusedCount(j)
        /\ \A j \in 1..(b - 1) : UnusedCount(j) > UnusedCount(b)

\* the option map of that state, or the empty map when nothing matched
WinningMap == IF states = << >> THEN EmptyMap ELSE states[FirstFewest].option_map

\* C1: parse returns the unused-index list and the option map (as finalization leaves
\* it, and untouched when flag_generate_empty_args is not set) of the state with the
\* fewest unused argv indices, the first such state of the matcher's result list
C1_BestStateReturned ==
    (Returned /\ states # << >>) =>
        /\ out.unused = unused_arguments(states[FirstFewest], Ctx)
        /\ out.map = finalize_option_map(states[FirstFewest].option_map, all_options,
                                         all_variables, call.flags)
        /\ ("flag_generate_empty_args" \notin call.flags
               => out.map = states[FirstFewest].option_map)

\* C1 witness: a parse returned where the first state is not the best one and two
\* states with different maps tie for the fewest unused indices
C1_Witness ==
    /\ Returned
    /\ Len(states) >= 3
    /\ FirstFewest > 1
    /\ \E j \in (FirstFewest + 1)..Len(states) :
           /\ UnusedCount(j) = UnusedCount(FirstFewest)
           /\ states[j].option_map # states[FirstFewest].option_map

\* the argv indices that the state uses: the positionals below next_positional_index,
\* and the name and value slots of the consumed resolved options
ConsumedPositionalSlots(state) ==
    { tok.positionals[i] : i \in 1..state.next_positional_index }

ConsumedNameSlots(state) ==
    { tok.resolved_options[i].name_idx_in_argv :
        i \in { j \in 1..Len(tok.resolved_options) : state.consumed_options[j] } }

ConsumedValueSlots(state) ==
    { tok.resolved_options[i].value_idx_in_argv :
        i \in { j \in 1..Len(tok.resolved_options) :
                  state.consumed_options[j]
                  /\ tok.resolved_options[j].value_idx_in_argv # npos } }

UnconsumedNameSlots(state) ==
    { tok.resolved_options[i].name_idx_in_argv :
        i \in { j \in 1..Len(tok.resolved_options) : ~ state.consumed_options[j] } }

\* C2 as stated: the returned unused indices lie in [0, |argv|) and none of them is the
\* name slot or the value slot of a consumed resolved option, or a consumed positional
C2_Original ==
    (Returned /\ states # << >>) =>
        /\ SeqToSet(out.unused) \subseteq 0..(Len(call.argv) - 1)
        /\ SeqToSet(out.unused) \cap ConsumedNameSlots(states[FirstFewest]) = {}
        /\ SeqToSet(out.unused) \cap ConsumedValueSlots(states[FirstFewest]) = {}
        /\ SeqToSet(out.unused) \cap ConsumedPositionalSlots(states[FirstFewest]) = {}

\* C2 amended: the returned unused indices lie in [0, |argv|); none of them is a
\* consumed positional or the value slot of a consumed resolved option; and none is the
\* name slot of a consumed resolved option, except an index that is also the name slot
\* of a resolved option that was not consumed (a combined short token used in part),
\* which is always reported unused
C2_UnusedDisjointFromUsed ==
    (Returned /\ states # << >>) =>
        /\ SeqToSet(out.unused) \subseteq 0..(Len(call.argv) - 1)
        /\ SeqToSet(out.unused)
               \cap (ConsumedNameSlots(states[FirstFewest])
                        \ UnconsumedNameSlots(states[FirstFewest])) = {}
        /\ SeqToSet(out.unused) \cap ConsumedValueSlots(states[FirstFewest]) = {}
        /\ SeqToSet(out.unused) \cap ConsumedPositionalSlots(states[FirstFewest]) = {}
        /\ UnconsumedNameSlots(states[FirstFewest]) \subseteq SeqToSet(out.unused)

\* C2 witness: a parse returned whose best state consumed a positional, an option with
\* its value in the next argument, and one of the two options of a combined short token
C2_Witness ==
    /\ Returned
    /\ states # << >>
    /\ states[FirstFewest].next_positional_index >= 1
    /\ ConsumedNameSlots(states[FirstFewest]) \cap UnconsumedNameSlots(states[FirstFewest]) # {}
    /\ out.unused # << >>

\* C2 witness of the value slots: the best state consumed an option whose value is the
\* next argument
C2_ValueWitness ==
    /\ Returned
    /\ states # << >>
    /\ ConsumedValueSlots(states[FirstFewest]) \ ConsumedNameSlots(states[FirstFewest]) # {}

\* C3: every state the matcher returns has next_positional_index <= |positionals|, one
\* consumed_options bit per resolved option, and so at most |resolved_options| set bits
C3_StatesWithinArgv ==
    pc = "select" =>
        \A i \in 1..Len(states) :
            /\ states[i].next_positional_index <= Len(tok.positionals)
            /\ Len(states[i].consumed_options) = Len(tok.resolved_options)
            /\ accumulate(states[i].consumed_options) <= Len(tok.resolved_options)

\* C3 witness: the matcher returned a state that used every positional and every
\* resolved option, and another that used fewer of each
C3_Witness ==
    /\ pc = "select"
    /\ Len(tok.positionals) >= 2
    /\ Len(tok.resolved_options) >= 2
    /\ \E i \in 1..Len(states) :
           /\ states[i].next_positional_index = Len(tok.positionals)
           /\ accumulate(states[i].consumed_options) = Len(tok.resolved_options)
    /\ \E i \in 1..Len(states) :
           /\ states[i].next_positional_index < Len(tok.positionals)
           /\ accumulate(states[i].consumed_options) < Len(tok.resolved_options)


-----------------------------------------------------------------------------
(* Documents for the option catalog alone: every choice of up to MaxOptListLen *)
(* lines of an Options: section, under each of four Usage: sections          *)

\* Usage: prog [options] [ -a ] [ --verbose ] [ -v ]
\* Options: -a  One
\*          -a  Longer
\*          -a  Foo
\*          -v, --verbose  Loud
\*          --verbose  Check
\*          -v  Msg
WordsP ==
    << t_Usage, t_prog, t_options, t_lbrack, t_dash_a, t_rbrack, t_lbrack, t_verbose,
       t_rbrack, t_lbrack, t_v, t_rbrack,
       t_Options, t_dash_a, t_One, t_dash_a, t_Longer, t_dash_a, t_Foo,
       t_v_comma, t_verbose, t_Loud, t_verbose, t_Check, t_v, t_Msg >>

\* the lines of the Options: section, each as parse_one_option_spec leaves it
PoolLines ==
    LET w == WordsP
    IN  << parse_one_option_spec(<< OptAt(w, t_dash_a, 2, 1, 1, EmptyRange, "sep_space") >>,
                                 WholeWord(w, t_One, 1), EmptyRange),
           parse_one_option_spec(<< OptAt(w, t_dash_a, 3, 1, 1, EmptyRange, "sep_space") >>,
                                 WholeWord(w, t_Longer, 1), EmptyRange),
           parse_one_option_spec(<< OptAt(w, t_dash_a, 4, 1, 1, EmptyRange, "sep_space") >>,
                                 WholeWord(w, t_Foo, 1), EmptyRange),
           parse_one_option_spec(<< OptAt(w, t_v_comma, 1, 1, 1, EmptyRange, "sep_space"),
                                    OptAt(w, t_verbose, 2, 2, 7, EmptyRange, "sep_space") >>,
                                 WholeWord(w, t_Loud, 1), EmptyRange),
           parse_one_option_spec(<< OptAt(w, t_verbose, 3, 2, 7, EmptyRange, "sep_space") >>,
                                 WholeWord(w, t_Check, 1), EmptyRange),
           parse_one_option_spec(<< OptAt(w, t_v, 2, 1, 1, EmptyRange, "sep_space") >>,
                                 WholeWord(w, t_Msg, 1), EmptyRange) >>

\* the options written in the Usage: section
PoolUsageOptions ==
    LET w == WordsP
    IN  << OptAt(w, t_dash_a, 1, 1, 1, EmptyRange, "sep_space"),
           OptAt(w, t_verbose, 1, 2, 7, EmptyRange, "sep_space"),
           OptAt(w, t_v, 1, 1, 1, EmptyRange, "sep_space") >>

\* the usage tree of  prog [options]  followed by the given options, each in brackets
PoolTree(usage_opts) ==
    usage_t(WholeWord(WordsP, t_prog, 1),
            Alt(<< << OptionsShortcut >>
                   \o [i \in 1..Len(usage_opts) |->
                         Bracket(<< << Simple(option_clause_t(usage_opts[i]), FALSE) >> >>,
                                 FALSE)] >>),
            EndUsage)

PoolTrees ==
    { PoolTree(<< >>),
      PoolTree(<< PoolUsageOptions[1] >>),
      PoolTree(<< PoolUsageOptions[2] >>),
      PoolTree(<< PoolUsageOptions[3], PoolUsageOptions[1] >>) }

RECURSIVE Flatten(_)
Flatten(seqs) == IF seqs = << >> THEN << >> ELSE Head(seqs) \o Flatten(Tail(seqs))

\* the choices of lines: up to MaxOptListLen different lines, in any order
PoolChoices ==
    { s \in SeqsUpTo(1..Len(PoolLines), MaxOptListLen) :
        \A i, j \in 1..Len(s) : i # j => s[i] # s[j] }

PoolDocs ==
    { [ source |-> Join(WordsP),
        options_spec |-> Flatten([i \in 1..Len(s) |-> PoolLines[s[i]]]),
        parse_tree |-> tree,
        tokens |-> {} ] : s \in PoolChoices, tree \in PoolTrees }

InitPre == \E d \in PoolDocs : InitOf(d)

NextPre == Preflight

SpecPre == InitPre /\ [][NextPre]_vars

-----------------------------------------------------------------------------
(* Properties: the option catalog *)

NameText(opt) == substr(source, opt.name.start, opt.name.length)

\* the key name of an option: its corresponding long name when it has one, else its name
KeyName(opt) ==
    IF range_empty(opt.corresponding_long_name) THEN NameText(opt)
    ELSE substr(source, opt.corresponding_long_name.start, opt.corresponding_long_name.length)

\* the i-th option of the list is the one of its same-name group that has the longest
\* description, the earliest of those that do
BestOfGroup(list, i) ==
    \A j \in 1..Len(list) :
        NameText(list[j]) = NameText(list[i]) =>
            \/ list[j].description_range.length < list[i].description_range.length
            \/ /\ list[j].description_range.length = list[i].description_range.length
               /\ j >= i

RECURSIVE SurvivorsFrom(_, _)
SurvivorsFrom(list, i) ==
    IF i > Len(list) THEN << >>
    ELSE (IF BestOfGroup(list, i) THEN << list[i] >> ELSE << >>) \o SurvivorsFrom(list, i + 1)

\* the list with, of every same-name group, only its best option left in place
Survivors(list) == SurvivorsFrom(list, 1)

\* C4 as stated: after preflight no two options of all_options have the same key name
C4_Original ==
    pc = "ready" =>
        \A i, j \in 1..Len(all_options) :
            i # j => KeyName(all_options[i]) # KeyName(all_options[j])

\* C4 amended: after uniqueize_options no two options of the list have the same name
\* (options that differ in name and share a key name, as -v and --verbose do, all
\* stay); of every group of same-name options exactly one is left, the one with the
\* longest description, the earliest of those on equal lengths; so it is for the
\* Options: section and then for all_options
C4_OneSurvivorPerName ==
    pc = "ready" =>
        /\ all_options = Survivors(usage_options \o Survivors(doc.options_spec))
        /\ \A i, j \in 1..Len(all_options) :
               i # j => NameText(all_options[i]) # NameText(all_options[j])
        /\ \A i \in 1..Len(shortcut_options) :
               \E j \in 1..Len(doc.options_spec) :
                   /\ BestOfGroup(doc.options_spec, j)
                   /\ shortcut_options[i] = doc.options_spec[j]

\* C4 witness: a preflight whose Options: section had two options of one name tied for
\* the longest description, and a third option, and whose usage named the two again
C4_Witness ==
    /\ pc = "ready"
    /\ Len(doc.options_spec) >= 3
    /\ \E i, j \in 1..Len(doc.options_spec) :
           /\ i < j
           /\ NameText(doc.options_spec[i]) = NameText(doc.options_spec[j])
           /\ doc.options_spec[i].description_range.length
                  = doc.options_spec[j].description_range.length
           /\ BestOfGroup(doc.options_spec, i)
           /\ \E u \in 1..Len(usage_options) :
                  NameText(usage_options[u]) = NameText(doc.options_spec[i])
    /\ Len(all_options) < Len(usage_options) + Len(Survivors(doc.options_spec))

\* the options of Survivors(Options:) whose key name is not that of a usage option
RECURSIVE WithoutUsageKeys(_)
WithoutUsageKeys(list) ==
    IF list = << >> THEN << >>
    ELSE (IF \E u \in 1..Len(usage_options) : KeyName(usage_options[u]) = KeyName(Head(list))
          THEN << >> ELSE << Head(list) >>)
         \o WithoutUsageKeys(Tail(list))

\* C5: after preflight no option of shortcut_options has the key name of an option
\* written in the usage, and the shortcut options without such a collision are all
\* there, in their original order
C5_ShortcutsExcised ==
    pc = "ready" =>
        /\ \A i \in 1..Len(shortcut_options), u \in 1..Len(usage_options) :
               KeyName(shortcut_options[i]) # KeyName(usage_options[u])
        /\ shortcut_options = WithoutUsageKeys(Survivors(doc.options_spec))


-----------------------------------------------------------------------------
(* Properties: the ellipsis loop *)

\* every name a state can hold as a suggestion
Suggestible ==
    { name_as_string(all_options[i], source) : i \in 1..Len(all_options) }
        \cup { substr(source, all_variables[i].start, all_variables[i].length) :
                 i \in 1..Len(all_variables) }
        \cup { substr(source, all_static_arguments[i].start, all_static_arguments[i].length) :
                 i \in 1..Len(all_static_arguments) }

\* the most progress a state of the call in progress can have made
ProgressCap == Len(tok.positionals) + Len(tok.resolved_options) + Cardinality(Suggestible)

-----------------------------------------------------------------------------
(* Properties: prefixes of long option names *)

\* the argument the tokenizer is at, and its name
TokArg == call.argv[tok.idx + 1]

TokName == LET o == parse_option_from_argument(TokArg)
           IN  substr(TokArg, o.name.start, o.name.length)

\* the tokenizer is at an argument that parse_long is tried on
AtLongToken ==
    /\ pc = "tokenize"
    /\ tok.idx < Len(call.argv)
    /\ ~ is_double_dash(TokArg)
    /\ starts_with_dashes(TokArg, 1)
    /\ Len(TokArg) > 1

TokType == IF starts_with_dashes(TokArg, 2) THEN "double_long" ELSE "single_long"

\* the catalog options of the argument's type named exactly as the argument, and those
\* whose name the argument's name is a strict prefix of (indexes into all_options)
ExactNames ==
    { i \in 1..Len(all_options) :
        all_options[i].type = TokType /\ NameText(all_options[i]) = TokName }

LongerNames ==
    { i \in 1..Len(all_options) :
        /\ all_options[i].type = TokType
        /\ Len(NameText(all_options[i])) > Len(TokName)
        /\ SubSeq(NameText(all_options[i]), 1, Len(TokName)) = TokName }

PrefixOfSeveral ==
    /\ AtLongToken
    /\ "flag_resolve_unambiguous_prefixes" \in call.flags
    /\ ExactNames = {}
    /\ Cardinality(LongerNames) >= 2

PrefixOfOne ==
    /\ AtLongToken
    /\ "flag_resolve_unambiguous_prefixes" \in call.flags
    /\ ExactNames = {}
    /\ Cardinality(LongerNames) = 1

\* what the step of the tokenizer did with the argument
AmbiguityReported ==
    \E k \in 1..Len(tok'.errors) :
        /\ tok'.errors[k].code = "error_ambiguous_prefix_match"
        /\ tok'.errors[k].arg_idx = tok.idx

NothingResolved ==
    /\ tok'.resolved_options = tok.resolved_options
    /\ tok'.positionals = tok.positionals

ResolvedTo(i) ==
    /\ Len(tok'.resolved_options) = Len(tok.resolved_options) + 1
    /\ SubSeq(tok'.resolved_options, 1, Len(tok.resolved_options)) = tok.resolved_options
    /\ tok'.resolved_options[Len(tok'.resolved_options)].option = all_options[i]
    /\ tok'.resolved_options[Len(tok'.resolved_options)].name_idx_in_argv = tok.idx
    /\ tok'.positionals = tok.positionals

ResolvedAsShorts ==
    /\ Len(tok'.resolved_options) > Len(tok.resolved_options)
    /\ SubSeq(tok'.resolved_options, 1, Len(tok.resolved_options)) = tok.resolved_options
    /\ \A k \in (Len(tok.resolved_options) + 1)..Len(tok'.resolved_options) :
           /\ tok'.resolved_options[k].option.type = "single_short"
           /\ tok'.resolved_options[k].name_idx_in_argv = tok.idx
    /\ tok'.positionals = tok.positionals
    /\ tok'.errors = tok.errors

SkippedUnresolved ==
    /\ NothingResolved
    /\ tok'.idx > tok.idx
    /\ \/ /\ Len(tok'.errors) > Len(tok.errors)
          /\ \E k \in 1..Len(tok'.errors) : tok'.errors[k].arg_idx \in {tok.idx, tok.idx + 1}
       \/ /\ "flag_generate_suggestions" \in call.flags
          /\ tok'.suggestion # << >>

-----------------------------------------------------------------------------
(* Properties: repeated calls and finalization *)

\* C8: a parse call leaves the catalog, the variables, the fixed commands and the tree
\* as preflight built them and the instance's error list empty, and a second call with
\* the same argv and flags returns the same map, unused indices and errors
C8_ParseRepeatable ==
    Returned =>
        /\ errors = << >>
        /\ parse_tree = preflight(doc).parse_tree
        /\ shortcut_options = preflight(doc).shortcut_options
        /\ all_options = preflight(doc).all_options
        /\ all_variables = preflight(doc).all_variables
        /\ all_static_arguments = preflight(doc).all_static_arguments
        /\ prev # NoResult =>
               /\ out.map = prev.map
               /\ out.unused = prev.unused
               /\ out.errors = prev.errors

\* C8 witness: a second call has returned, with errors, unused indices and a map
C8_Witness ==
    /\ Returned
    /\ prev # NoResult
    /\ out.errors # << >>
    /\ out.unused # << >>
    /\ out.map # EmptyMap

\* the names finalization adds an entry for
CatalogNames ==
    { longest_name_as_string(all_options[i], source) : i \in 1..Len(all_options) }
        \cup { substr(source, all_variables[i].start, all_variables[i].length) :
                 i \in 1..Len(all_variables) }
        \cup { substr(source, all_static_arguments[i].start, all_static_arguments[i].length) :
                 i \in 1..Len(all_static_arguments) }

\* the default values of the options with that longest name
DefaultsOf(name) ==
    { substr(source, all_options[i].default_value_range.start,
             all_options[i].default_value_range.length) :
        i \in { j \in 1..Len(all_options) :
                  /\ longest_name_as_string(all_options[j], source) = name
                  /\ ~ range_empty(all_options[j].default_value_range) } }

\* C9 as stated: with flag_generate_empty_args the returned map has an entry for every
\* option (under its longest name), variable and fixed command, and the entries of the
\* winning state keep their counts and values
C9_Original ==
    (Returned /\ "flag_generate_empty_args" \in call.flags) =>
        /\ CatalogNames \subseteq DOMAIN out.map
        /\ \A name \in DOMAIN WinningMap :
               /\ name \in DOMAIN out.map
               /\ out.map[name] = WinningMap[name]

\* C9 amended: with flag_generate_empty_args the returned map has an entry for every
\* option (under its longest name), variable and fixed command, also when nothing
\* matched; the entries of the winning state keep their counts, and keep their values
\* unless they have none and belong to an option with a default value, which then
\* becomes their single value
C9_EmptyArgsGenerated ==
    (Returned /\ "flag_generate_empty_args" \in call.flags) =>
        /\ DOMAIN out.map = CatalogNames \cup DOMAIN WinningMap
        /\ \A name \in DOMAIN WinningMap :
               /\ out.map[name].count = WinningMap[name].count
               /\ \/ out.map[name].values = WinningMap[name].values
                  \/ /\ WinningMap[name].values = << >>
                     /\ \E d \in DefaultsOf(name) : out.map[name].values = << d >>
        /\ \A name \in CatalogNames \ DOMAIN WinningMap :
               /\ out.map[name].count = 0
               /\ DefaultsOf(name) = {} => out.map[name].values = << >>

\* C9 witness: a parse with flag_generate_empty_args returned a map with more entries
\* than the winning state had, one of them kept with its value, and one that the
\* state had without values now holding a default
C9_Witness ==
    /\ Returned
    /\ "flag_generate_empty_args" \in call.flags
    /\ DOMAIN out.map # DOMAIN WinningMap
    /\ \E name \in DOMAIN WinningMap :
           WinningMap[name].values # << >> /\ out.map[name] = WinningMap[name]
    /\ \E name \in DOMAIN WinningMap :
           WinningMap[name].values = << >> /\ out.map[name].values # << >>

\* C9 witness of the call that matches nothing
C9_NoMatchWitness ==
    /\ Returned
    /\ "flag_generate_empty_args" \in call.flags
    /\ states = << >>
    /\ call.argv # << >>
    /\ DOMAIN out.map # {}

\* C10: in finalization with flag_generate_empty_args, the entry of an option with a
\* default value that has no values gets the default as its single value, and an
\* entry that has values from argv keeps exactly those
C10_DefaultsApplied ==
    (Returned /\ "flag_generate_empty_args" \in call.flags) =>
        \A i \in 1..Len(all_options) :
            ~ range_empty(all_options[i].default_value_range) =>
                LET name == longest_name_as_string(all_options[i], source)
                    had == map_get(WinningMap, name)
                IN  IF had.values = << >>
                    THEN out.map[name].values =
                             << substr(source, all_options[i].default_value_range.start,
                                       all_options[i].default_value_range.length) >>
                    ELSE out.map[name].values = had.values

\* C10 witness: a parse with flag_generate_empty_args returned where one option with a
\* default had a value from argv and another had none
C10_Witness ==
    /\ Returned
    /\ "flag_generate_empty_args" \in call.flags
    /\ \E i, j \in 1..Len(all_options) :
           /\ ~ range_empty(all_options[i].default_value_range)
           /\ ~ range_empty(all_options[j].default_value_range)
           /\ map_get(WinningMap, longest_name_as_string(all_options[i], source)).values # << >>
           /\ longest_name_as_string(all_options[j], source) \notin DOMAIN WinningMap
           /\ out.map[longest_name_as_string(all_options[j], source)].values # << >>


-----------------------------------------------------------------------------
(* validate_arguments *)

\* validate_status marking the slot after each unused index
validate_status_shifted(argv, unused_args) ==
    [ i \in 1..Len(argv) |->
        IF i \in SeqToSet(unused_args) THEN "status_invalid" ELSE "status_valid" ]

\* validate_arguments, the result vector: every slot valid, then the unused ones invalid
validate_status(argv, unused_args) ==
    [ i \in 1..Len(argv) |->
        IF (i - 1) \in SeqToSet(unused_args) THEN "status_invalid" ELSE "status_valid" ]

\* validate_arguments on the instance, with the argv and the flags parse was called
\* with: it enters best_assignment_for_argv
ValidateBegin ==
    /\ pc = "ready"
    /\ out # NoResult
    /\ call.op = "parse"
    /\ prev = NoResult
    /\ prev' = out
    /\ call' = [call EXCEPT !.op = "validate"]
    /\ errors' = errors_on_entry(errors)
    /\ tok' = TokInit(errors')
    /\ pc' = "tokenize"
    /\ UNCHANGED << doc, source, parse_tree, shortcut_options, usage_options, all_options,
                    all_variables, all_static_arguments, states, out, ell >>

\* validate_arguments, from the return of best_assignment_for_argv on
ValidateReturn ==
    /\ pc = "select"
    /\ call.op = "validate"
    /\ LET r == match_argv_result(states, Ctx, all_options, all_variables)
       IN  out' = [ op |-> "validate", status |-> validate_status(call.argv, r.unused) ]
    /\ errors' = << >>
    /\ pc' = "ready"
    /\ UNCHANGED << doc, source, parse_tree, shortcut_options, usage_options, all_options,
                    all_variables, all_static_arguments, call, tok, states, prev, ell >>

NextValidate ==
    \/ Preflight
    \/ ParseBegin
    \/ Tokenize
    \/ Match
    \/ ParseReturn
    \/ ValidateBegin
    \/ ValidateReturn

SpecValidate == Init /\ [][NextValidate]_vars

\* C11: validate returns one status for every argv slot, and slot i is invalid exactly
\* when i is among the unused indices parse returned for the same argv and flags
C11_ValidateMarksUnused ==
    (pc = "ready" /\ out.op = "validate") =>
        /\ Len(out.status) = Len(call.argv)
        /\ \A i \in 0..(Len(call.argv) - 1) :
               /\ out.status[i + 1] \in {"status_valid", "status_invalid"}
               /\ out.status[i + 1] = "status_invalid"
                      <=> \E k \in 1..Len(prev.unused) : prev.unused[k] = i

\* C11 witness: validate returned a list with a valid and an invalid slot
C11_Witness ==
    /\ pc = "ready"
    /\ out.op = "validate"
    /\ prev.unused # << >>
    /\ \E i, j \in 1..Len(out.status) :
           out.status[i] = "status_valid" /\ out.status[j] = "status_invalid"


-----------------------------------------------------------------------------
(* Properties: a call that matches nothing *)

\* C12: when the matcher returns no state (as it does when the argv has no positional
\* for the program name), parse reports every index 0..|argv|-1 as unused, ascending,
\* and the map is the finalization of an empty map
C12_NoMatchAllUnused ==
    /\ (pc = "select" /\ tok.positionals = << >>) => states = << >>
    /\ (Returned /\ states = << >>) =>
           /\ out.unused = [i \in 1..Len(call.argv) |-> i - 1]
           /\ IF "flag_generate_empty_args" \in call.flags
              THEN /\ DOMAIN out.map = CatalogNames
                   /\ \A name \in CatalogNames :
                          /\ out.map[name].count = 0
                          /\ \/ out.map[name].values = << >> /\ DefaultsOf(name) = {}
                             \/ \E d \in DefaultsOf(name) : out.map[name].values = << d >>
              ELSE out.map = EmptyMap

\* C12 witness: a parse of two arguments or more returned without a match state, all
\* its indices unused and its map empty
C12_Witness ==
    /\ Returned
    /\ states = << >>
    /\ Len(call.argv) >= 2
    /\ out.unused = [i \in 1..Len(call.argv) |-> i - 1]
    /\ out.map = EmptyMap

\* C12 witness of an argv without a positional for the program name
C12_NoProgramNameWitness ==
    /\ Returned
    /\ states = << >>
    /\ tok.positionals = << >>
    /\ out.unused = << 0 >>


-----------------------------------------------------------------------------
(* suggest_next_argument *)

\* the characters of the docs in the order of their codes
CharsInOrder ==
    << "-", "1", "5", ":", "<", "=", ">",
       "A", "B", "C", "D", "E", "F", "G", "H", "I", "J", "K", "L", "M",
       "N", "O", "P", "Q", "R", "S", "T", "U", "V", "W", "X", "Y", "Z", "[", "]",
       "a", "b", "c", "d", "e", "f", "g", "h", "i", "j", "k", "l", "m",
       "n", "o", "p", "q", "r", "s", "t", "u", "v", "w", "x", "y", "z", "|" >>

char_code(c) == CHOOSE i \in 1..Len(CharsInOrder) : CharsInOrder[i] = c

\* operator< of string_t: the first character that differs decides, a proper prefix
\* comes first
string_less(a, b) ==
    \E k \in 1..(Len(b)) :
        /\ \A j \in 1..(k - 1) : j <= Len(a) /\ a[j] = b[j]
        /\ k - 1 <= Len(a)
        /\ \/ k > Len(a)
           \/ char_code(a[k]) < char_code(b[k])

RECURSIVE set_in_order(_)
\* the elements of a std::set<string_t> as its iterator gives them
set_in_order(S) ==
    IF S = {} THEN << >>
    ELSE LET least == CHOOSE x \in S : \A y \in S \ {x} : string_less(x, y)
         IN  << least >> \o set_in_order(S \ {least})

RECURSIVE sort_insert(_, _)
\* std::sort, one element into a sorted list
sort_insert(sorted, x) ==
    IF sorted = << >> THEN << x >>
    ELSE IF string_less(x, Head(sorted)) THEN << x >> \o sorted
    ELSE << Head(sorted) >> \o sort_insert(Tail(sorted), x)

RECURSIVE std_sort(_, _)
\* std::sort of a list of strings
std_sort(list, sorted) ==
    IF list = << >> THEN sorted
    ELSE std_sort(Tail(list), sort_insert(sorted, Head(list)))

RECURSIVE std_unique(_)
\* std::unique and erase: of equal neighbours the first stays
std_unique(list) ==
    IF Len(list) < 2 THEN list
    ELSE IF list[1] = list[2] THEN std_unique(Tail(list))
    ELSE << list[1] >> \o std_unique(Tail(list))

RECURSIVE best_unused_count(_, _, _, _)
\* suggest_next_argument, the first loop: the fewest unused arguments of any state
best_unused_count(state_list, ctx, i, best_unused_arg_count) ==
    IF i >= Len(state_list) THEN best_unused_arg_count
    ELSE best_unused_count(state_list, ctx, i + 1,
             IF best_unused_arg_count = npos
                  \/ Len(unused_arguments(state_list[i + 1], ctx)) < best_unused_arg_count
             THEN Len(unused_arguments(state_list[i + 1], ctx))
             ELSE best_unused_arg_count)

RECURSIVE collect_suggestions_all(_, _, _, _)
\* collect_suggestions taking the suggestions of every state
collect_suggestions_all(state_list, ctx, i, best_unused_arg_count) ==
    IF i >= Len(state_list) THEN << >>
    ELSE set_in_order(state_list[i + 1].suggested_next_arguments)
         \o collect_suggestions_all(state_list, ctx, i + 1, best_unused_arg_count)

RECURSIVE collect_suggestions(_, _, _, _)
\* suggest_next_argument, the second loop: the suggestions of the states with that many
collect_suggestions(state_list, ctx, i, best_unused_arg_count) ==
    IF i >= Len(state_list) THEN << >>
    ELSE (IF Len(unused_arguments(state_list[i + 1], ctx)) = best_unused_arg_count
          THEN set_in_order(state_list[i + 1].suggested_next_arguments)
          ELSE << >>)
         \o collect_suggestions(state_list, ctx, i + 1, best_unused_arg_count)

\* suggest_next_argument, from the matcher's states on
all_suggestions(state_list, ctx) ==
    std_unique(std_sort(collect_suggestions(state_list, ctx, 0,
                                            best_unused_count(state_list, ctx, 0, npos)),
                        << >>))

\* suggest_next_argument: the flags get flag_generate_suggestions, and the tokenizer
\* starts with no error list and a suggestion to fill
SuggestBegin ==
    /\ pc = "ready"
    /\ out = NoResult
    /\ \E argv \in Argvs(doc), flags \in FlagSets :
           call' = [ op |-> "suggest", argv |-> argv,
                     flags |-> flags \cup {"flag_generate_suggestions"} ]
    /\ tok' = TokInit(<< >>)
    /\ pc' = "suggest_tokenize"
    /\ UNCHANGED << doc, source, parse_tree, shortcut_options, usage_options, all_options,
                    all_variables, all_static_arguments, errors, states, out, prev, ell >>

\* separate_argv_into_options_and_positionals, one turn of its loop, with NULL as
\* out_errors and the suggestion as out_suggestion
SuggestTokenize ==
    /\ pc = "suggest_tokenize"
    /\ tok.idx < Len(call.argv)
    /\ tok' = tok_step(call.argv, all_options, call.flags, tok, FALSE, TRUE)
    /\ UNCHANGED << doc, source, pc, parse_tree, shortcut_options, usage_options, all_options,
                    all_variables, all_static_arguments, errors, call, states, out, prev, ell >>

\* suggest_next_argument, the tokenizer left a suggestion: it is returned alone
SuggestImmediate ==
    /\ pc = "suggest_tokenize"
    /\ ~ (tok.idx < Len(call.argv))
    /\ tok.suggestion # << >>
    /\ out' = [ op |-> "suggest", suggestions |-> << tok.suggestion >> ]
    /\ pc' = "ready"
    /\ UNCHANGED << doc, source, parse_tree, shortcut_options, usage_options, all_options,
                    all_variables, all_static_arguments, errors, call, tok, states, prev, ell >>

\* suggest_next_argument, the match of the tree
SuggestMatch ==
    /\ pc = "suggest_tokenize"
    /\ ~ (tok.idx < Len(call.argv))
    /\ tok.suggestion = << >>
    /\ states' = match(parse_tree, init_state(tok.resolved_options), Ctx, FALSE)
    /\ pc' = "suggest_select"
    /\ UNCHANGED << doc, source, parse_tree, shortcut_options, usage_options, all_options,
                    all_variables, all_static_arguments, errors, call, tok, out, prev, ell >>

\* suggest_next_argument, the suggestions of the best states
SuggestReturn ==
    /\ pc = "suggest_select"
    /\ out' = [ op |-> "suggest", suggestions |-> all_suggestions(states, Ctx) ]
    /\ pc' = "ready"
    /\ UNCHANGED << doc, source, parse_tree, shortcut_options, usage_options, all_options,
                    all_variables, all_static_arguments, errors, call, tok, states, prev, ell >>

NextSuggest ==
    \/ Preflight
    \/ SuggestBegin
    \/ SuggestTokenize
    \/ SuggestImmediate
    \/ SuggestMatch
    \/ SuggestReturn

SpecSuggest == Init /\ [][NextSuggest]_vars

\* a suggest call has returned
Suggested == pc = "ready" /\ out.op = "suggest"

\* the states with the fewest unused argv indices (indexes into states)
FewestUnused ==
    { i \in 1..Len(states) : \A j \in 1..Len(states) : UnusedCount(i) <= UnusedCount(j) }

\* C13: when the tokenizer left no suggestion, suggest returns the suggestions of the
\* states with the fewest unused arguments and of no other state, in ascending order
\* and each once; without a state it returns nothing
C13_SuggestionsOfBestStates ==
    (Suggested /\ tok.suggestion = << >>) =>
        /\ SeqToSet(out.suggestions)
               = UNION { states[i].suggested_next_arguments : i \in FewestUnused }
        /\ \A k \in 1..(Len(out.suggestions) - 1) :
               string_less(out.suggestions[k], out.suggestions[k + 1])
        /\ states = << >> => out.suggestions = << >>

\* C13 witness: suggest returned a suggestion, and left out one that only a state with
\* more unused arguments had
C13_Witness ==
    /\ Suggested
    /\ tok.suggestion = << >>
    /\ Len(out.suggestions) >= 1
    /\ \E i \in 1..Len(states) :
           /\ i \notin FewestUnused
           /\ \E s \in states[i].suggested_next_arguments : s \notin SeqToSet(out.suggestions)

\* C13 witness: the suggestions returned come from two best states that suggest
\* different things
C13_UnionWitness ==
    /\ Suggested
    /\ tok.suggestion = << >>
    /\ Len(out.suggestions) >= 2
    /\ \E i, j \in FewestUnused :
           /\ states[i].suggested_next_arguments \ states[j].suggested_next_arguments # {}
           /\ states[j].suggested_next_arguments \ states[i].suggested_next_arguments # {}

\* C13 witness: suggest found no state and returned nothing
C13_NoStateWitness ==
    /\ Suggested
    /\ tok.suggestion = << >>
    /\ states = << >>
    /\ out.suggestions = << >>
    /\ Len(call.argv) >= 1

-----------------------------------------------------------------------------
(* suggest_next_argument: the last argument is an option whose value is missing *)

RECURSIVE tok_visited(_, _, _, _, _, _)
\* the argv indices at which a turn of the tokenizer's loop starts
tok_visited(argv, options, flags, t, has_errors, want_suggestion) ==
    IF ~ (t.idx < Len(argv)) THEN {}
    ELSE {t.idx} \cup tok_visited(argv, options, flags,
                                  tok_step(argv, options, flags, t, has_errors, want_suggestion),
                                  has_errors, want_suggestion)

LastArg == call.argv[Len(call.argv)]

\* the last argument is read as an option: it is neither the value of the option
\* before it nor behind a "--"
LastDispatched ==
    /\ Len(call.argv) >= 1
    /\ (Len(call.argv) - 1) \in tok_visited(call.argv, all_options, call.flags,
                                            TokInit(<< >>), FALSE, TRUE)

LastLongType == IF starts_with_dashes(LastArg, 2) THEN "double_long" ELSE "single_long"

LastAsOption == [parse_option_from_argument(LastArg) EXCEPT !.type = LastLongType]

\* the long options the last argument names: by its exact name, or as the only option
\* it is a prefix of when prefixes are resolved
LastLongNamed ==
    LET exact == long_exact_matches(LastArg, LastAsOption, LastLongType, all_options)
        longer == long_prefix_matches(LastArg, LastAsOption, LastLongType, all_options)
    IN  IF exact # << >> THEN SeqToSet(exact)
        ELSE IF "flag_resolve_unambiguous_prefixes" \in call.flags /\ Len(longer) = 1
        THEN SeqToSet(longer)
        ELSE {}

\* the last argument read as a long option names an option with a value, and brings none
LastLongWantsValue ==
    IF LastDispatched /\ starts_with_dashes(LastArg, 1) /\ Len(LastArg) > 1
          /\ ~ is_double_dash(LastArg) /\ ~ has_value(LastAsOption)
    THEN { o \in LastLongNamed : has_value(o) }
    ELSE {}

\* the last argument goes to parse_short, all its characters name short options, and
\* the last of them has a value
LastShortWantsValue ==
    IF /\ LastDispatched
       /\ starts_with_dashes(LastArg, 1) /\ Len(LastArg) > 1 /\ ~ starts_with_dashes(LastArg, 2)
       /\ ~ parse_long(call.argv, "single_long", call.flags, Len(call.argv) - 1,
                       all_options, TRUE).success
       /\ ~ parse_unseparated_short(call.argv, call.flags, Len(call.argv) - 1,
                                    all_options).success
       /\ \A k \in 2..Len(LastArg) : \E o \in SeqToSet(all_options) :
              o.type = "single_short" /\ substr(source, o.name.start, o.name.length) = << LastArg[k] >>
    THEN { o \in SeqToSet(all_options) :
              /\ o.type = "single_short"
              /\ substr(source, o.name.start, o.name.length) = << LastArg[Len(LastArg)] >>
              /\ has_value(o) }
    ELSE {}

\* C14: when the last argv token names an option that expects a value and no value
\* follows it, suggest returns one element only, the variable text of that option,
\* and the matcher is not run
C14_MissingValueSuggested ==
    (Suggested /\ LastLongWantsValue \cup LastShortWantsValue # {}) =>
        /\ \E o \in LastLongWantsValue \cup LastShortWantsValue :
               out.suggestions = << substr(source, o.value.start, o.value.length) >>
        /\ states = << >>

\* C14 witness: after a first argument, a last argument with two dashes names an option
\* with a value, and suggest returned its variable
C14_Witness ==
    /\ Suggested
    /\ Len(call.argv) >= 2
    /\ starts_with_dashes(LastArg, 2)
    /\ LastLongWantsValue # {}
    /\ Len(out.suggestions) = 1

\* C14 witness: the last argument is a run of short options that ends in one with a value
C14_ShortWitness ==
    /\ Suggested
    /\ LastLongWantsValue = {}
    /\ LastShortWantsValue # {}
    /\ Len(LastArg) > 2
    /\ Len(out.suggestions) = 1

\* C14 witness: the last argument names an option with a value, but is itself the value
\* of the option before it, and the suggestions come from the matcher
C14_ValueSlotWitness ==
    /\ Suggested
    /\ Len(call.argv) >= 2
    /\ ~ LastDispatched
    /\ starts_with_dashes(LastArg, 2) /\ ~ is_double_dash(LastArg)
    /\ \E o \in LastLongNamed : has_value(o)
    /\ tok.suggestion = << >>


-----------------------------------------------------------------------------
(* The tokenizer on runs of short options and on "--" *)

InitTok == InitOf(DocT) \/ InitOf(DocE)

NextTok ==
    \/ Preflight
    \/ ParseBegin
    \/ Tokenize
    \/ Match
    \/ ParseReturn

SpecTok == InitTok /\ [][NextTok]_vars

\* a turn of the tokenizer's loop starts at the argument TokArg
AtToken == pc = "tokenize" /\ tok.idx < Len(call.argv)

\* C15: at an argument that is exactly "--" the tokenizer makes every later argv index
\* a positional, in order and whatever its text, resolves no option, reports no error
\* and ends its loop
C15_DoubleDashEndsOptions ==
    [][ (AtToken /\ TokArg = t_dashdash) =>
            /\ tok'.positionals
                   = tok.positionals
                       \o [i \in 1..(Len(call.argv) - 1 - tok.idx) |-> tok.idx + i]
            /\ tok'.resolved_options = tok.resolved_options
            /\ tok'.errors = tok.errors
            /\ tok'.idx = Len(call.argv) ]_vars

\* C15 witness: the tokenizer has ended, and an argument after a "--" that reads as an
\* option is a positional
C15_Witness ==
    /\ pc = "tokenize"
    /\ tok.idx = Len(call.argv)
    /\ \E j \in SeqToSet(tok.positionals) :
           /\ starts_with_dashes(call.argv[j + 1], 1)
           /\ Len(call.argv[j + 1]) > 1
           /\ j + 1 < Len(call.argv)
    /\ tok.errors = << >>

\* C15 witness: a "--" that is the value of the option before it ends nothing, the
\* argument after it is resolved as an option
C15_ValueWitness ==
    /\ pc = "tokenize"
    /\ tok.idx = Len(call.argv)
    /\ \E k \in 1..Len(tok.resolved_options), m \in 1..Len(tok.resolved_options) :
           /\ tok.resolved_options[k].value_idx_in_argv # npos
           /\ call.argv[tok.resolved_options[k].value_idx_in_argv + 1] = t_dashdash
           /\ tok.resolved_options[m].name_idx_in_argv
                  > tok.resolved_options[k].value_idx_in_argv


\* a turn of the tokenizer's loop appends to the error list
ErrorRecorded == AtToken /\ Len(tok'.errors) > Len(tok.errors)

\* C16: whenever the tokenizer records an error at the argument of index i, it adds no
\* positional and no resolved option, and goes on at index i + 1: the error costs that
\* one slot
C16_ErrorCostsOneSlot ==
    [][ ErrorRecorded => NothingResolved /\ tok'.idx = tok.idx + 1 ]_vars


-----------------------------------------------------------------------------
(* parse_short: an option with a value that is not the last of its argument *)

\* the argv indices at which a turn of the tokenizer's loop of the returned call started
Visited == tok_visited(call.argv, all_options, call.flags, TokInit(<< >>), TRUE, FALSE)

\* the index parse_short is called with in the turn that starts at index i
ShortIdx(i) == parse_long(call.argv, "single_long", call.flags, i, all_options, FALSE).idx

\* the turn that starts at index i hands its argument to parse_short: the argument has
\* one dash, and parse_long and parse_unseparated_short have failed on it
HandledByParseShort(i) ==
    /\ i \in Visited
    /\ starts_with_dashes(call.argv[i + 1], 1)
    /\ ~ starts_with_dashes(call.argv[i + 1], 2)
    /\ Len(call.argv[i + 1]) > 1
    /\ ~ parse_long(call.argv, "single_long", call.flags, i, all_options, FALSE).success
    /\ ~ parse_unseparated_short(call.argv, call.flags, ShortIdx(i), all_options).success

\* the character at position k of the argument names a short option with a value
NamesValuedShort(arg, k) ==
    \E o \in SeqToSet(all_options) :
        /\ o.type = "single_short"
        /\ has_value(o)
        /\ substr(source, o.name.start, o.name.length) = << arg[k + 1] >>

\* C17: when parse_short handles an argument and a character of it other than the last
\* names an option with a value, the errors parse returns hold
\* error_option_unexpected_argument for the index of that argument at the position of
\* that character
C17_ValueBeforeLastReported ==
    (Returned /\ out.op = "parse") =>
        \A i \in 0..(Len(call.argv) - 1) :
            HandledByParseShort(i) =>
                \A k \in 1..(Len(call.argv[ShortIdx(i) + 1]) - 2) :
                    NamesValuedShort(call.argv[ShortIdx(i) + 1], k) =>
                        \E e \in SeqToSet(out.errors) :
                            /\ e.code = "error_option_unexpected_argument"
                            /\ e.arg_idx = ShortIdx(i)
                            /\ e.position = k


-----------------------------------------------------------------------------
(* The three readings of an argument with one dash *)

\* the tokenizer is at an argument with one dash and more
AtSingleDash ==
    /\ AtToken
    /\ starts_with_dashes(TokArg, 1)
    /\ ~ starts_with_dashes(TokArg, 2)
    /\ Len(TokArg) > 1

\* what the three attempts hand back at that argument, each called as the tokenizer
\* calls it after the one before has failed
LongTry == parse_long(call.argv, "single_long", call.flags, tok.idx, all_options, FALSE)
UnseparatedTry == parse_unseparated_short(call.argv, call.flags, LongTry.idx, all_options)
ShortTry == parse_short(call.argv, call.flags, UnseparatedTry.idx, all_options, FALSE)

OneTrySucceeds == LongTry.success \/ UnseparatedTry.success \/ ShortTry.success

\* the list new is the list old with the list added put in at one place
InsertedInto(old, added, new) ==
    \E p \in 0..Len(old) :
        new = SubSeq(old, 1, p) \o added \o SubSeq(old, p + 1, Len(old))

\* C18: at an argument with one dash, when one of the three attempts succeeds the error
\* list is left as it was; when all three fail, the errors of the two short attempts
\* and of the long attempt are all added to it, the short ones before the long ones
C18_SingleDashErrors ==
    [][ AtSingleDash =>
            IF OneTrySucceeds
            THEN tok'.errors = tok.errors
            ELSE \/ InsertedInto(tok.errors,
                                 (UnseparatedTry.errors \o ShortTry.errors) \o LongTry.errors,
                                 tok'.errors)
                 \/ InsertedInto(tok.errors,
                                 (ShortTry.errors \o UnseparatedTry.errors) \o LongTry.errors,
                                 tok'.errors) ]_vars

\* C18 witness: all three attempts have failed on an argument, and the error of a
\* character that names no short option stands right before the error of the unknown
\* long name
C18_Witness ==
    /\ pc = "tokenize"
    /\ \E a \in 1..(Len(tok.errors) - 1) :
           /\ tok.errors[a].code = "error_unknown_option"
           /\ tok.errors[a].position > 0
           /\ tok.errors[a + 1].code = "error_unknown_option"
           /\ tok.errors[a + 1].position = 0
           /\ tok.errors[a + 1].arg_idx = tok.errors[a].arg_idx

\* C18 witness: an argument with one dash that names no long option has been resolved
\* as short options, and the error list is empty
C18_SuppressedWitness ==
    /\ pc = "tokenize"
    /\ tok.idx = Len(call.argv)
    /\ tok.errors = << >>
    /\ \E k \in 1..Len(tok.resolved_options) :
           /\ tok.resolved_options[k].option.type = "single_short"
           /\ Len(call.argv[tok.resolved_options[k].name_idx_in_argv + 1]) > 2


-----------------------------------------------------------------------------
(* The calls of match on alternation lists and on square brackets *)

RECURSIVE match_calls(_, _, _, _)
RECURSIVE match_calls_list(_, _, _, _)

\* the calls below, over a list of states
match_calls_list(node, state_list, ctx, is_in_square_brackets) ==
    UNION { match_calls(node, state_list[i], ctx, is_in_square_brackets) :
              i \in 1..Len(state_list) }

\* The calls of match(alternation_list_t) and of match(expression_t) on square brackets
\* that one call of match makes, each as [node, state, isb]: the descent of match,
\* collecting
match_calls(node, state, ctx, is_in_square_brackets) ==
    CASE node.kind = "usage" ->
            IF ~ has_more_positionals(state, ctx) \/ range_empty(node.prog_name)
            THEN {}
            ELSE match_calls(node.alternation_list, acquire_next_positional(state),
                             ctx, is_in_square_brackets)
                 \cup match_calls(node.next_usage, state, ctx, is_in_square_brackets)
      [] node.kind = "expression_list" ->
            match_calls(node.expression, state, ctx, is_in_square_brackets)
            \cup match_calls_list(node.opt_expression_list,
                                  match(node.expression, state, ctx, is_in_square_brackets),
                                  ctx, is_in_square_brackets)
      [] node.kind = "opt_expression_list" ->
            match_calls(node.expression_list, state, ctx, is_in_square_brackets)
      [] node.kind = "alternation_list" ->
            {[node |-> node, state |-> state, isb |-> is_in_square_brackets]}
            \cup match_calls(node.expression_list, state, ctx, is_in_square_brackets)
            \cup match_calls(node.or_continuation, state, ctx, is_in_square_brackets)
      [] node.kind = "or_continuation" ->
            match_calls(node.alternation_list, state, ctx, is_in_square_brackets)
      [] node.kind = "expression" /\ node.production # 3 ->
            LET child == expression_child(node)
                isb == expression_isb(node, is_in_square_brackets)
                first == match(child, state, ctx, isb)
                looped == IF node.opt_ellipsis
                          THEN ellipsis_loop(child, first, first, ctx, isb, MaxRounds)
                          ELSE << >>
            IN  (IF node.production = 2
                 THEN {[node |-> node, state |-> state, isb |-> is_in_square_brackets]}
                 ELSE {})
                \cup match_calls(child, state, ctx, isb)
                \cup match_calls_list(child, looped, ctx, isb)
      [] OTHER -> {}

\* one call of match on an alternation list or on square brackets, with the list it
\* returns and what it leaves in *state
MatchCall ==
    /\ pc = "tokenize"
    /\ ~ (tok.idx < Len(call.argv))
    /\ \E c \in match_calls(parse_tree, init_state(tok.resolved_options), Ctx, FALSE) :
           ell' = [ node |-> c.node, isb |-> c.isb, entry |-> c.state,
                    result |-> match(c.node, c.state, Ctx, c.isb),
                    left_behind |-> state_after_match(c.node, c.state, Ctx, c.isb) ]
    /\ pc' = "called"
    /\ UNCHANGED << doc, source, parse_tree, shortcut_options, usage_options, all_options,
                    all_variables, all_static_arguments, errors, call, tok, states, out, prev >>

\* the match goes on to its end
MatchCallEnd ==
    /\ pc = "called"
    /\ states' = match(parse_tree, init_state(tok.resolved_options), Ctx, FALSE)
    /\ ell' = NoEll
    /\ pc' = "select"
    /\ UNCHANGED << doc, source, parse_tree, shortcut_options, usage_options, all_options,
                    all_variables, all_static_arguments, errors, call, tok, out, prev >>

NextCalls ==
    \/ Preflight
    \/ ParseBegin
    \/ Tokenize
    \/ Match
    \/ MatchCall
    \/ MatchCallEnd
    \/ ParseReturn

SpecCalls == Init /\ [][NextCalls]_vars

\* a call of match on an alternation list is in view
AlternationCalled == pc = "called" /\ ell.node.kind = "alternation_list"

\* C19: match on an alternation list returns the successors of its expression list
\* from the state s it is called with, followed by the successors of its
\* or_continuation from s as it was on entry, whatever the left branch has done to
\* the state
C19_AlternationBranchesApart ==
    AlternationCalled =>
        ell.result = match(ell.node.expression_list, ell.entry, Ctx, ell.isb)
                        \o match(ell.node.or_continuation, ell.entry, Ctx, ell.isb)

\* C19 witness: both branches of an alternation have successors, and the left branch
\* has changed the state it was handed
C19_Witness ==
    /\ AlternationCalled
    /\ ell.node.or_continuation.alternation_list # Null
    /\ match(ell.node.expression_list, ell.entry, Ctx, ell.isb) # << >>
    /\ match(ell.node.or_continuation, ell.entry, Ctx, ell.isb) # << >>
    /\ state_after_match(ell.node.expression_list, ell.entry, Ctx, ell.isb) # ell.entry

\* a call of match on an expression in square brackets is in view
BracketCalled == pc = "called" /\ ell.node.kind = "expression" /\ ell.node.production = 2

\* the successors of the child of the bracket in view: its first match and, with
\* ellipsis, the rounds that follow
ChildSuccessors ==
    LET first == match(ell.node.alternation_list, ell.entry, Ctx, TRUE)
    IN  IF ell.node.opt_ellipsis
        THEN ellipsis_loop(ell.node.alternation_list, first, first, Ctx, TRUE, MaxRounds)
        ELSE first

\* C20: match on an expression in square brackets, with or without ellipsis, returns a
\* list that is not empty: the successors of the child and, after them all, the state
\* as it was on entry
C20_BracketKeepsEntryState ==
    BracketCalled =>
        /\ ell.result # << >>
        /\ ell.result[Len(ell.result)] = ell.entry
        /\ SubSeq(ell.result, 1, Len(ell.result) - 1) = ChildSuccessors

\* C20 witness: a bracket without ellipsis whose child has a successor and has changed
\* the state it was handed
C20_Witness ==
    /\ BracketCalled
    /\ ~ ell.node.opt_ellipsis
    /\ Len(ell.result) >= 2
    /\ ell.left_behind # ell.entry

\* C20 witness: a bracket with ellipsis whose child has a successor
C20_EllipsisWitness ==
    /\ BracketCalled
    /\ ell.node.opt_ellipsis
    /\ Len(ell.result) >= 2
    /\ ell.left_behind # ell.entry

\* C20 witness: a bracket whose child has no successor returns the entry state alone
C20_AloneWitness ==
    /\ BracketCalled
    /\ ell.result = << ell.entry >>
    /\ ell.entry.next_positional_index > 0


-----------------------------------------------------------------------------
(* The calls of match on the clauses and on [options] *)

RECURSIVE clause_calls(_, _, _, _)
RECURSIVE clause_calls_list(_, _, _, _)

\* the calls below, over a list of states
clause_calls_list(node, state_list, ctx, is_in_square_brackets) ==
    UNION { clause_calls(node, state_list[i], ctx, is_in_square_brackets) :
              i \in 1..Len(state_list) }

\* The calls of match on an option clause, a fixed clause, a variable clause and the
\* [options] clause that one call of match makes, each as [node, state, isb]: the
\* descent of match, collecting
clause_calls(node, state, ctx, is_in_square_brackets) ==
    CASE node.kind = "usage" ->
            IF ~ has_more_positionals(state, ctx) \/ range_empty(node.prog_name)
            THEN {}
            ELSE clause_calls(node.alternation_list, acquire_next_positional(state),
                              ctx, is_in_square_brackets)
                 \cup clause_calls(node.next_usage, state, ctx, is_in_square_brackets)
      [] node.kind = "expression_list" ->
            clause_calls(node.expression, state, ctx, is_in_square_brackets)
            \cup clause_calls_list(node.opt_expression_list,
                                   match(node.expression, state, ctx, is_in_square_brackets),
                                   ctx, is_in_square_brackets)
      [] node.kind = "opt_expression_list" ->
            clause_calls(node.expression_list, state, ctx, is_in_square_brackets)
      [] node.kind = "alternation_list" ->
            clause_calls(node.expression_list, state, ctx, is_in_square_brackets)
            \cup clause_calls(node.or_continuation, state, ctx, is_in_square_brackets)
      [] node.kind = "or_continuation" ->
            clause_calls(node.alternation_list, state, ctx, is_in_square_brackets)
      [] node.kind = "expression" /\ node.production = 3 ->
            {[node |-> node, state |-> state, isb |-> is_in_square_brackets]}
      [] node.kind = "expression" /\ node.production # 3 ->
            LET child == expression_child(node)
                isb == expression_isb(node, is_in_square_brackets)
                first == match(child, state, ctx, isb)
                looped == IF node.opt_ellipsis
                          THEN ellipsis_loop(child, first, first, ctx, isb, MaxRounds)
                          ELSE << >>
            IN  clause_calls(child, state, ctx, isb)
                \cup clause_calls_list(child, looped, ctx, isb)
      [] node.kind \in {"option_clause", "fixed_clause", "variable_clause"} ->
            {[node |-> node, state |-> state, isb |-> is_in_square_brackets]}
      [] OTHER -> {}

InitClauses == Init \/ InitOf(DocG)

\* one call of match on a clause, with the list it returns and what it leaves in *state
ClauseCall ==
    /\ pc = "tokenize"
    /\ ~ (tok.idx < Len(call.argv))
    /\ \E c \in clause_calls(parse_tree, init_state(tok.resolved_options), Ctx, FALSE) :
           ell' = [ node |-> c.node, isb |-> c.isb, entry |-> c.state,
                    result |-> match(c.node, c.state, Ctx, c.isb),
                    left_behind |-> state_after_match(c.node, c.state, Ctx, c.isb) ]
    /\ pc' = "called"
    /\ UNCHANGED << doc, source, parse_tree, shortcut_options, usage_options, all_options,
                    all_variables, all_static_arguments, errors, call, tok, states, out, prev >>

NextClauses ==
    \/ Preflight
    \/ ParseBegin
    \/ Tokenize
    \/ Match
    \/ ClauseCall
    \/ MatchCallEnd
    \/ ParseReturn

SpecClauses == InitClauses /\ [][NextClauses]_vars

\* a call of match on a fixed clause is in view
FixedCalled == pc = "called" /\ ell.node.kind = "fixed_clause"

\* the text of the fixed clause in view
Literal == substr(source, ell.node.word.start, ell.node.word.length)

\* the state the call in view was made with has a next positional, and its text
NextPositionalText == call.argv[next_positional(ell.entry, Ctx) + 1]

\* the call in view has added the text to the suggestions of the state it was made
\* with, be the state handed on or not
AddedToSuggestions(text) ==
    IF ell.result # << >>
    THEN ell.result[1].suggested_next_arguments
             = ell.entry.suggested_next_arguments \cup {text}
    ELSE ell.left_behind.suggested_next_arguments
             = ell.entry.suggested_next_arguments \cup {text}

\* the call in view hands on the state it was made with, but for the suggestions
PassesThrough ==
    /\ Len(ell.result) = 1
    /\ [ell.result[1] EXCEPT !.suggested_next_arguments = {}]
           = [ell.entry EXCEPT !.suggested_next_arguments = {}]

\* the call in view has one successor: the positional consumed, the count of the
\* literal one higher
LiteralTaken ==
    /\ Len(ell.result) = 1
    /\ ell.result[1].next_positional_index = ell.entry.next_positional_index + 1
    /\ map_get(ell.result[1].option_map, Literal).count
           = map_get(ell.entry.option_map, Literal).count + 1
    /\ ell.result[1].consumed_options = ell.entry.consumed_options
    /\ ell.result[1].suggested_next_arguments = ell.entry.suggested_next_arguments

\* without a next positional: the literal is suggested when suggestions are asked for,
\* and the state passes through if and only if incomplete matches are allowed
SuggestedAndMaybePassed ==
    /\ "flag_generate_suggestions" \in call.flags => AddedToSuggestions(Literal)
    /\ IF "flag_match_allow_incomplete" \in call.flags
       THEN PassesThrough
       ELSE ell.result = << >>

\* C21 as stated: a next positional that equals the literal is taken; in every other
\* case, also that of a next positional with another text, the literal is suggested
\* and the state passes through under flag_match_allow_incomplete
C21_Original ==
    FixedCalled =>
        IF has_more_positionals(ell.entry, Ctx) /\ NextPositionalText = Literal
        THEN LiteralTaken
        ELSE SuggestedAndMaybePassed

\* C21 amended: a next positional that equals the literal is taken; a next positional
\* with another text gives no successor and no suggestion; without a next positional
\* the literal is suggested when suggestions are asked for, and the state passes
\* through if and only if flag_match_allow_incomplete is set
C21_FixedClause ==
    FixedCalled =>
        IF has_more_positionals(ell.entry, Ctx)
        THEN IF NextPositionalText = Literal
             THEN LiteralTaken
             ELSE ell.result = << >> /\ ell.left_behind = ell.entry
        ELSE SuggestedAndMaybePassed

\* C21 witness: a fixed clause met a positional with another text, with suggestions
\* and incomplete matches asked for, and gave nothing
C21_Witness ==
    /\ FixedCalled
    /\ has_more_positionals(ell.entry, Ctx)
    /\ NextPositionalText # Literal
    /\ {"flag_generate_suggestions", "flag_match_allow_incomplete"} \subseteq call.flags
    /\ ell.result = << >>

\* C21 witness: a fixed clause took its positional
C21_TakenWitness ==
    /\ FixedCalled
    /\ has_more_positionals(ell.entry, Ctx)
    /\ NextPositionalText = Literal
    /\ Len(ell.result) = 1

\* C21 witness: a fixed clause without a next positional suggested its literal and
\* handed the state on
C21_PassedWitness ==
    /\ FixedCalled
    /\ ~ has_more_positionals(ell.entry, Ctx)
    /\ {"flag_generate_suggestions", "flag_match_allow_incomplete"} \subseteq call.flags
    /\ Len(ell.result) = 1
    /\ Literal \in ell.result[1].suggested_next_arguments


-----------------------------------------------------------------------------
(* match_options *)

\* a call of match that goes to match_options is in view: an option clause, or the
\* [options] clause
OptionsCalled ==
    /\ pc = "called"
    /\ \/ ell.node.kind = "option_clause"
       \/ ell.node.kind = "expression" /\ ell.node.production = 3

\* the list match_options is called with
OptionsInDoc ==
    IF ell.node.kind = "option_clause" THEN << ell.node.option >> ELSE shortcut_options

OptionsResult == match_options(OptionsInDoc, ell.entry, Ctx)

\* the resolved options (indexes from 1) the call has consumed
NewlyConsumed ==
    IF OptionsResult = << >> THEN {}
    ELSE { i \in 1..Len(tok.resolved_options) :
             OptionsResult[1].consumed_options[i] /\ ~ ell.entry.consumed_options[i] }

\* the names the call has added to the suggestions
NewlySuggested ==
    IF OptionsResult = << >> THEN {}
    ELSE OptionsResult[1].suggested_next_arguments \ ell.entry.suggested_next_arguments

\* the resolved options the doc option has consumed
ConsumedBy(opt_in_doc) ==
    { i \in NewlyConsumed : options_have_same_name(tok.resolved_options[i].option, opt_in_doc) }

\* C22: in one call of match_options every option of the list consumes at most one
\* resolved option, the first unconsumed one of its name; after an option with a
\* corresponding long name has matched, a later option of the list with the same
\* corresponding long name consumes nothing and is not suggested; no two resolved
\* options with the same corresponding long name are consumed by one call
C22_OneOptionPerKey ==
    OptionsCalled =>
        /\ \A j \in 1..Len(OptionsInDoc) :
               /\ Cardinality(ConsumedBy(OptionsInDoc[j])) <= 1
               /\ \A i \in ConsumedBy(OptionsInDoc[j]) :
                      \A h \in 1..(i - 1) :
                          options_have_same_name(tok.resolved_options[h].option,
                                                 OptionsInDoc[j])
                              => ell.entry.consumed_options[h]
        /\ \A j \in 1..Len(OptionsInDoc), k \in 1..Len(OptionsInDoc) :
               ( /\ j < k
                 /\ ~ range_empty(OptionsInDoc[j].corresponding_long_name)
                 /\ OptionsInDoc[k].corresponding_long_name
                        = OptionsInDoc[j].corresponding_long_name
                 /\ ConsumedBy(OptionsInDoc[j]) # {} )
               => /\ ConsumedBy(OptionsInDoc[k]) = {}
                  /\ name_as_string(OptionsInDoc[k], source) \notin NewlySuggested
        /\ \A i \in NewlyConsumed, h \in NewlyConsumed :
               ( /\ i # h
                 /\ ~ range_empty(tok.resolved_options[i].option.corresponding_long_name) )
               => tok.resolved_options[h].option.corresponding_long_name
                      # tok.resolved_options[i].option.corresponding_long_name

\* C22 witness: argv gives an option under its short and under its long name, the
\* list holds both, and the call consumes one of the two
C22_Witness ==
    /\ OptionsCalled
    /\ Cardinality(NewlyConsumed) = 1
    /\ \E i \in NewlyConsumed, h \in 1..Len(tok.resolved_options) :
           /\ h # i
           /\ ~ ell.entry.consumed_options[h]
           /\ tok.resolved_options[h].option # tok.resolved_options[i].option
           /\ ~ range_empty(tok.resolved_options[i].option.corresponding_long_name)
           /\ tok.resolved_options[h].option.corresponding_long_name
                  = tok.resolved_options[i].option.corresponding_long_name
           /\ \E k \in 1..Len(OptionsInDoc) : OptionsInDoc[k] = tok.resolved_options[h].option

\* C22 witness: with suggestions asked for, the short name has matched and the long
\* name of the same option is not suggested, while another option is
C22_SuggestWitness ==
    /\ OptionsCalled
    /\ "flag_generate_suggestions" \in call.flags
    /\ NewlyConsumed # {}
    /\ NewlySuggested # {}
    /\ \E j \in 1..Len(OptionsInDoc), k \in 1..Len(OptionsInDoc) :
           /\ j < k
           /\ ~ range_empty(OptionsInDoc[j].corresponding_long_name)
           /\ OptionsInDoc[k].corresponding_long_name = OptionsInDoc[j].corresponding_long_name
           /\ ConsumedBy(OptionsInDoc[j]) # {}
           /\ name_as_string(OptionsInDoc[k], source) \notin NewlySuggested


\* C23: a resolved option has a value index exactly when its option takes a value;
\* the value index is the name index when the value is in the same argument, and the
\* name index plus one when the value is the whole next argument
C23_ValueIndexIffValued ==
    \A k \in 1..Len(tok.resolved_options) :
        LET r == tok.resolved_options[k]
        IN  /\ (r.value_idx_in_argv # npos) <=> has_value(r.option)
            /\ r.value_idx_in_argv # npos =>
                   \/ /\ r.value_idx_in_argv = r.name_idx_in_argv
                      /\ r.value_range_in_arg.start > 0
                   \/ /\ r.value_idx_in_argv = r.name_idx_in_argv + 1
                      /\ r.value_range_in_arg
                             = [ start |-> 0,
                                 length |-> Len(call.argv[r.value_idx_in_argv + 1]) ]


-----------------------------------------------------------------------------
(* The match_count assertions of the tokenizer *)

\* parse_long: the options that match the argument by type and exact name
LongMatches(arg, type, options) ==
    LET parsed == parse_option_from_argument(arg)
        arg_as_option == IF type = "single_long" /\ parsed.type = "single_short"
                         THEN [parsed EXCEPT !.type = "single_long"]
                         ELSE parsed
    IN  long_exact_matches(arg, arg_as_option, type, options)

\* parse_unseparated_short: the valued short options that match the first character
UnseparatedMatches(arg, flags, options) ==
    SelectSeq(options, LAMBDA opt :
        /\ opt.type = "single_short"
        /\ has_value(opt)
        /\ ("flag_short_options_strict_separators" \notin flags \/ opt.separator = "sep_none")
        /\ range_equals_string(opt.name, arg, 1, 1))

\* parse_short: the short options that match the character at idx_in_arg
ShortMatches(arg, idx_in_arg, options) ==
    SelectSeq(options, LAMBDA opt :
        /\ opt.type = "single_short"
        /\ range_equals_string(opt.name, arg, idx_in_arg, 1))

\* the arguments of argv that start with a dash and are longer than the dash
DashArgs == { i \in 1..Len(call.argv) :
                starts_with_dashes(call.argv[i], 1) /\ Len(call.argv[i]) > 1 }

\* C24: after preflight, for every argument of every argv, at most one option of
\* all_options matches it by type and exact name in parse_long, at most one valued
\* short option matches its first character in parse_unseparated_short, and at most
\* one short option matches each of its characters in parse_short
C24_AtMostOneMatch ==
    pc = "tokenize" =>
        \A i \in DashArgs :
            LET arg == call.argv[i]
            IN  /\ Len(LongMatches(arg, "double_long", all_options)) <= 1
                /\ Len(LongMatches(arg, "single_long", all_options)) <= 1
                /\ Len(UnseparatedMatches(arg, call.flags, all_options)) <= 1
                /\ \A idx_in_arg \in 1..(Len(arg) - 1) :
                       Len(ShortMatches(arg, idx_in_arg, all_options)) <= 1

\* C24 witness: an argument names a short option that the usage and the options
\* section both give, and all_options holds it once
C24_Witness ==
    /\ pc = "tokenize"
    /\ \E i \in DashArgs :
           /\ Len(ShortMatches(call.argv[i], 1, all_options)) = 1
           /\ Len(ShortMatches(call.argv[i], 1, usage_options \o doc.options_spec)) > 1

\* C24 witness: an argument is the exact name of one long option and its first
\* character names one short option
C24_LongWitness ==
    /\ pc = "tokenize"
    /\ \E i \in DashArgs :
           /\ Len(LongMatches(call.argv[i], "single_long", all_options)) = 1
           /\ Len(ShortMatches(call.argv[i], 1, all_options)) = 1

-----------------------------------------------------------------------------
(* unused_arguments and arguments shared by several options *)

\* the argv indexes unused_arguments reports for the s-th state of the result list
UnusedOf(s) ==
    LET unused == unused_arguments(states[s], Ctx)
    IN  { unused[k] : k \in 1..Len(unused) }

\* the resolved options (indexes from 1) whose name is in the argument at index i
NamedAt(i) ==
    { k \in 1..Len(tok.resolved_options) : tok.resolved_options[k].name_idx_in_argv = i }

\* C25: for every state the matcher returns, an argv index that is the name slot of
\* resolved options is reported used only if every resolved option with that name
\* index was consumed; with one of them unconsumed the index is in the unused set
C25_SharedSlotUsedOnlyIfAllConsumed ==
    pc = "select" =>
        \A s \in 1..Len(states), i \in 0..(Len(call.argv) - 1) :
            NamedAt(i) # {} =>
                /\ i \notin UnusedOf(s) =>
                       \A k \in NamedAt(i) : states[s].consumed_options[k]
                /\ (\E k \in NamedAt(i) : ~ states[s].consumed_options[k]) =>
                       i \in UnusedOf(s)

\* C25 witness: one argument holds two resolved options, a state has consumed one of
\* them and not the other, and the argument is unused
C25_Witness ==
    /\ pc = "select"
    /\ \E s \in 1..Len(states), i \in 0..(Len(call.argv) - 1) :
           /\ \E k \in NamedAt(i), m \in NamedAt(i) :
                  /\ states[s].consumed_options[k]
                  /\ ~ states[s].consumed_options[m]
           /\ i \in UnusedOf(s)

\* C25 witness: one argument holds two resolved options, a state has consumed both,
\* and the argument is used
C25_AllConsumedWitness ==
    /\ pc = "select"
    /\ \E s \in 1..Len(states), i \in 0..(Len(call.argv) - 1) :
           /\ Cardinality(NamedAt(i)) >= 2
           /\ \A k \in NamedAt(i) : states[s].consumed_options[k]
           /\ i \notin UnusedOf(s)


-----------------------------------------------------------------------------
(* The cursor after a failed parse_long *)

\* C26: parse_long leaves the argv cursor where it was when it returns failure, so at
\* an argument with one dash parse_unseparated_short and parse_short are called at the
\* index parse_long was called at
C26_FailedLongKeepsCursor ==
    /\ AtLongToken =>
           \A want_suggestion \in BOOLEAN :
               LET r == parse_long(call.argv, TokType, call.flags, tok.idx, all_options,
                                   want_suggestion)
               IN  ~ r.success => r.idx = tok.idx
    /\ (AtSingleDash /\ ~ LongTry.success) =>
           /\ LongTry.idx = tok.idx
           /\ ~ UnseparatedTry.success => UnseparatedTry.idx = tok.idx


-----------------------------------------------------------------------------
(* match(option_clause_t) with suggestions *)

\* a call of match on an option clause is in view
OptionClauseCalled == pc = "called" /\ ell.node.kind = "option_clause"

\* no unconsumed resolved option has the name of the clause in view
NoneToConsume == find_resolved(ell.node.option, ell.entry, Ctx) = npos

C27_NoFlagWitness ==
    /\ OptionClauseCalled
    /\ "flag_generate_suggestions" \notin call.flags
    /\ "flag_match_allow_incomplete" \notin call.flags
    /\ ~ ell.isb
    /\ NoneToConsume
    /\ ell.result = << >>

\* C27 witness: with the flag, the clause consumes a resolved option and has one
\* successor
C27_ConsumedWitness ==
    /\ OptionClauseCalled
    /\ "flag_generate_suggestions" \in call.flags
    /\ ~ NoneToConsume
    /\ Len(ell.result) = 1
    /\ ell.result[1].consumed_options # ell.entry.consumed_options


-----------------------------------------------------------------------------
(* What a matched state has consumed and what its map holds *)

RECURSIVE SumOver(_, _, _)
\* the sum of the counts, or of the numbers of values, of the map's entries under keys
SumOver(map, keys, of_values) ==
    IF keys = {} THEN 0
    ELSE LET k == CHOOSE x \in keys : TRUE
         IN  (IF of_values THEN Len(map[k].values) ELSE map[k].count)
                 + SumOver(map, keys \ {k}, of_values)

\* the keys of the map that are option names, variable names, fixed commands
OptionKeys(map) == { k \in DOMAIN map : k[1] = "-" }
VariableKeys(map) == { k \in DOMAIN map : k[1] = "<" }
FixedKeys(map) == (DOMAIN map \ OptionKeys(map)) \ VariableKeys(map)

\* C28: in every state the top-level match returns, the number of consumed resolved
\* options is the sum of the counts of the option entries of the option map, and
\* next_positional_index is one (the program name) plus the sum of the counts of the
\* fixed-command entries plus the number of all values under variable entries
C28_Conservation ==
    pc = "select" =>
        \A s \in 1..Len(states) :
            LET map == states[s].option_map
            IN  /\ accumulate(states[s].consumed_options)
                       = SumOver(map, OptionKeys(map), FALSE)
                /\ states[s].next_positional_index
                       = 1 + SumOver(map, FixedKeys(map), FALSE)
                           + SumOver(map, VariableKeys(map), TRUE)

\* C28 witness: a returned state has consumed a resolved option and a fixed command
C28_Witness ==
    /\ pc = "select"
    /\ \E s \in 1..Len(states) :
           LET map == states[s].option_map
           IN  /\ accumulate(states[s].consumed_options) >= 1
               /\ states[s].next_positional_index >= 2
               /\ SumOver(map, FixedKeys(map), FALSE) >= 1

\* C28 witness: a returned state has consumed a fixed command and a variable's value
C28_VariableWitness ==
    /\ pc = "select"
    /\ \E s \in 1..Len(states) :
           LET map == states[s].option_map
           IN  /\ states[s].next_positional_index = 3
               /\ SumOver(map, FixedKeys(map), FALSE) = 1
               /\ SumOver(map, VariableKeys(map), TRUE) = 1

\* C28 witness: a returned state holds a fixed command matched twice
C28_RepeatWitness ==
    /\ pc = "select"
    /\ \E s \in 1..Len(states) :
           \E k \in FixedKeys(states[s].option_map) : states[s].option_map[k].count >= 2

\* C28 witness: a returned state holds an option entry with a value and a count
C28_ValueWitness ==
    /\ pc = "select"
    /\ \E s \in 1..Len(states) :
           \E k \in OptionKeys(states[s].option_map) :
               /\ states[s].option_map[k].values # << >>
               /\ states[s].option_map[k].count >= 1

-----------------------------------------------------------------------------
(* The indexes the tokenizer hands out *)

\* the argv indexes of the positionals, of the names and of the values of t
PositionalSlots(t) == { t.positionals[k] : k \in 1..Len(t.positionals) }
NameSlots(t) == { t.resolved_options[k].name_idx_in_argv : k \in 1..Len(t.resolved_options) }
ValueSlots(t) ==
    { t.resolved_options[k].value_idx_in_argv :
        k \in { m \in 1..Len(t.resolved_options) :
                  t.resolved_options[m].value_idx_in_argv # npos } }

\* the positionals ascend, the names of the resolved options do not descend, every
\* index is an index of argv, no index is a positional and a slot of an option, and an
\* argument that is the value of one option names no option of another argument
IndexesInOrder(t) ==
    /\ \A k \in 1..(Len(t.positionals) - 1) : t.positionals[k] < t.positionals[k + 1]
    /\ \A k \in 1..(Len(t.resolved_options) - 1) :
           t.resolved_options[k].name_idx_in_argv
               <= t.resolved_options[k + 1].name_idx_in_argv
    /\ \A i \in PositionalSlots(t) \cup NameSlots(t) \cup ValueSlots(t) :
           0 <= i /\ i < Len(call.argv)
    /\ PositionalSlots(t) \cap (NameSlots(t) \cup ValueSlots(t)) = {}
    /\ \A k \in 1..Len(t.resolved_options), m \in 1..Len(t.resolved_options) :
           t.resolved_options[k].value_idx_in_argv = t.resolved_options[m].name_idx_in_argv
               => t.resolved_options[k].name_idx_in_argv
                      = t.resolved_options[m].name_idx_in_argv

\* C29: every turn of the tokenizer's loop moves the cursor forward and not beyond the
\* length of argv, and leaves the positional indexes strictly increasing, the name
\* indexes of the resolved options non-decreasing, all indexes below the length of
\* argv, no index both a positional and the name or value slot of a resolved option,
\* and no index the value slot of one resolved option and the name slot of an option
\* of another argument
C29_TokenizerIndexes ==
    [][ AtToken => /\ tok'.idx > tok.idx
                   /\ tok'.idx <= Len(call.argv)
                   /\ IndexesInOrder(tok') ]_vars

\* C29 witness: the tokenizer has reached the end of an argv with a positional and an
\* option that took the argument after it as its value
C29_Witness ==
    /\ pc = "tokenize"
    /\ tok.idx = Len(call.argv)
    /\ Len(tok.positionals) >= 1
    /\ ValueSlots(tok) \ NameSlots(tok) # {}
    /\ IndexesInOrder(tok)

\* C29 witness: the end of an argv with one argument that holds two resolved options
C29_SharedWitness ==
    /\ pc = "tokenize"
    /\ tok.idx = Len(call.argv)
    /\ \E k \in 1..(Len(tok.resolved_options) - 1) :
           tok.resolved_options[k].name_idx_in_argv
               = tok.resolved_options[k + 1].name_idx_in_argv
    /\ IndexesInOrder(tok)


-----------------------------------------------------------------------------
(* Finalization without flag_generate_empty_args *)

\* C30: without flag_generate_empty_args the map a parse returns is the option map of
\* the winning state as the matcher left it, and the empty map when the matcher
\* returned no state
C30_NoEmptyArgsNoChange ==
    (Returned /\ "flag_generate_empty_args" \notin call.flags) =>
        out.map = WinningMap

\* C30 witness: a parse without the flag returned the map of a winning state that
\* lacks names of the catalog, which finalization with the flag would have added
C30_Witness ==
    /\ Returned
    /\ "flag_generate_empty_args" \notin call.flags
    /\ states # << >>
    /\ out.map # EmptyMap
    /\ out.map = states[FirstFewest].option_map
    /\ CatalogNames \ DOMAIN out.map # {}

\* C30 witness: a parse without the flag that matched no state returned the empty map
\* though the catalog has names
C30_NoStateWitness ==
    /\ Returned
    /\ "flag_generate_empty_args" \notin call.flags
    /\ states = << >>
    /\ call.argv # << >>
    /\ CatalogNames # {}
    /\ out.map = EmptyMap

=============================================================================
